---------------------------- MODULE Spec2Model ----------------------------
(***************************************************************************)
(* The X11 selection bridge of spice-vdagent (src/src/vdagent-x11.c) as a  *)
(* state machine.  One action per externally triggered handler: the daemon *)
(* messages (clipboard_request / grab / data / release) and the X11 events *)
(* dispatched by vdagent_x11_handle_event.  Every handler runs to          *)
(* completion (the program is single threaded), so each is one step.       *)
(***************************************************************************)
EXTENDS Integers, Sequences, FiniteSets, TLC

(***************************************************************************)
(* Bounds of the model.                                                    *)
(***************************************************************************)
MaxReq == 2        \* CLIPBOARD_REQUEST messages the daemon sends in a run
MaxSelReq == 3     \* SelectionRequest events X11 requestors send in a run
MaxConv == 2       \* XConvertSelection calls awaiting their SelectionNotify
MaxData == 3       \* largest payload, in bytes, the daemon sends
MaxIncr == 3       \* largest payload, in bytes, an X11 owner sends by INCR
MaxChunk == 2      \* largest property, in bytes, an X11 owner writes
MaxOwn == 3        \* ownership changes (XFixes notifications, grabs) in a run

(***************************************************************************)
(* Program constants.                                                      *)
(***************************************************************************)
owner_none == 0
owner_guest == 1
owner_client == 2

VD_AGENT_CLIPBOARD_NONE == 0
VD_AGENT_CLIPBOARD_UTF8_TEXT == 1
VD_AGENT_CLIPBOARD_IMAGE_PNG == 2
VD_AGENT_CLIPBOARD_IMAGE_BMP == 3
VD_AGENT_CLIPBOARD_IMAGE_TIFF == 4
VD_AGENT_CLIPBOARD_IMAGE_JPG == 5

VD_AGENT_CLIPBOARD_SELECTION_CLIPBOARD == 0
VD_AGENT_CLIPBOARD_SELECTION_PRIMARY == 1
VD_AGENT_CLIPBOARD_SELECTION_SECONDARY == 2

\* The selections the bridge keeps state for (XFixes input is selected for
\* these two only).
Selections ==
    {VD_AGENT_CLIPBOARD_SELECTION_CLIPBOARD, VD_AGENT_CLIPBOARD_SELECTION_PRIMARY}

\* Atoms are modelled by their names; None is the X11 null atom / window.
None == "None"
targets_atom == "TARGETS"
incr_atom == "INCR"
multiple_atom == "MULTIPLE"
clipboard_atom == "CLIPBOARD"
clipboard_primary_atom == "PRIMARY"
XA_ATOM == "ATOM"

\* Windows are numbers: 0 is the X11 null window, selection_window is the
\* hidden 1x1 window all selection traffic of the bridge goes through, and
\* the other numbers are windows of local applications.
NoWindow == 0
selection_window == 1
Requestors == {2, 3}

clipboard_format_templates ==
    << [type |-> VD_AGENT_CLIPBOARD_UTF8_TEXT,
        atoms |-> <<"UTF8_STRING", "text/plain;charset=UTF-8",
                    "text/plain;charset=utf-8">>],
       [type |-> VD_AGENT_CLIPBOARD_IMAGE_PNG, atoms |-> <<"image/png">>],
       [type |-> VD_AGENT_CLIPBOARD_IMAGE_BMP,
        atoms |-> <<"image/bmp", "image/x-bmp", "image/x-MS-bmp",
                    "image/x-win-bitmap">>],
       [type |-> VD_AGENT_CLIPBOARD_IMAGE_TIFF, atoms |-> <<"image/tiff">>],
       [type |-> VD_AGENT_CLIPBOARD_IMAGE_JPG, atoms |-> <<"image/jpeg">>] >>

clipboard_format_count == Len(clipboard_format_templates)

\* x11->max_prop_size: fixed at creation from the server's maximum request
\* size.  A small value here, so that payloads of a few bytes need INCR.
max_prop_size == 2

\* A payload of n bytes; byte i has value i, so that a lost, repeated or
\* reordered chunk changes the payload.
Bytes(n) == [i \in 1..n |-> i]

SubSeqFrom(s, from, len) == [i \in 1..len |-> s[from + i - 1]]

Min(a, b) == IF a < b THEN a ELSE b

(***************************************************************************)
(* State.                                                                  *)
(*  x11    struct vdagent_x11 (the fields the selection code uses)         *)
(*  udscs  the messages the last handler queued for the daemon             *)
(*  xout   the Xlib requests the last handler issued                       *)
(*  xconv  XConvertSelection requests whose SelectionNotify is outstanding *)
(*         (id: the number of the daemon request converted, 0 for TARGETS) *)
(*  peer_incr  per selection: -1, or the number of bytes the selection     *)
(*         owner has written so far in an INCR transfer to the property    *)
(*         of that selection on selection_window                           *)
(*  dreq   CLIPBOARD_REQUESTs sent to the daemon and not yet answered      *)
(*  xprops (window, property) pairs the bridge has written on a requestor  *)
(*         window that reports property changes, not yet deleted by it     *)
(*  xmask  requestor windows PropertyChangeMask has been selected on       *)
(*  n_req, n_selreq  requests received so far (they number the requests)   *)
(*  answers[i]   CLIPBOARD_DATA messages posted for daemon request i       *)
(*  notifies[i]  SelectionNotify events sent for SelectionRequest i        *)
(*  issued  the requests something has been issued for: conv, the daemon   *)
(*         requests with an XConvertSelection; sel, the SelectionRequests  *)
(*         with a CLIPBOARD_REQUEST or an Xlib request on their requestor  *)
(*  incr_in  the non-empty INCR chunks read since the running INCR receive *)
(*         began, concatenated                                             *)
(*  incr_tx  empty, or one record of what the requestor of the latest INCR *)
(*         send has seen: the request's number and target, the size the    *)
(*         INCR property announced, the SelectionNotify events that named  *)
(*         it, the payload the daemon sent, the properties written since   *)
(*         and the deletions of the property handled since                 *)
(*  n_own  ownership changes so far                                        *)
(*  oob    what vdagent_x11_target_to_type returns when it leaves the      *)
(*         format table (see OobOutcomes): fixed by the build              *)
(*  seen   the names of the rarely taken branches of the handlers that   *)
(*         the run has gone through (see SelectionNotify, ClipboardData)   *)
(*  xread  how many of the Xlib requests of xout had been issued when the  *)
(*         last handler last emptied the event queue of the library        *)
(***************************************************************************)
VARIABLES x11, udscs, xout, xconv, peer_incr, dreq, xprops, xmask,
          n_req, n_selreq, n_own, answers, notifies, issued, incr_in,
          incr_tx, oob, seen, xread

vars == <<x11, udscs, xout, xconv, peer_incr, dreq, xprops, xmask,
          n_req, n_selreq, n_own, answers, notifies, issued, incr_in,
          incr_tx, oob, seen, xread>>

\* calloc(1, sizeof(*x11)): every field zero.
vdagent_x11_create ==
    [ expected_targets_notifies |-> [s \in Selections |-> 0],
      clipboard_owner |-> [s \in Selections |-> owner_none],
      clipboard_agent_types |-> [s \in Selections |-> <<>>],
      clipboard_x11_targets |-> [s \in Selections |-> <<>>],
      conversion_req |-> <<>>,
      expect_property_notify |-> FALSE,
      clipboard_data |-> <<>>,
      selection_req |-> <<>>,
      selection_req_data |-> <<>>,
      selection_req_data_pos |-> 0,
      selection_req_data_size |-> 0,
      selection_req_atom |-> None ]

(***************************************************************************)
(* A handler is a function on a context: the struct, plus the daemon       *)
(* messages and the Xlib requests issued so far by the running handler,    *)
(* and how many of these requests had been issued when the handler last    *)
(* emptied the library's event queue (an Xlib request may read events from *)
(* the socket into that queue, where the main loop's select does not see   *)
(* them).                                                                  *)
(***************************************************************************)
Ctx(x) == [x11 |-> x, udscs |-> <<>>, xout |-> <<>>, read |-> 0]

\* A message carries, besides its header fields and payload, the number of
\* the request it is sent for (req, 0 for none; a daemon request for
\* CLIPBOARD_DATA, a SelectionRequest for CLIPBOARD_REQUEST): the wire does
\* not hold it, the model uses it to tell the requests apart.
Message(type, arg1, arg2, data, req) ==
    [type |-> type, arg1 |-> arg1, arg2 |-> arg2, data |-> data, req |-> req]

udscs_write(c, type, arg1, arg2, data) ==
    [c EXCEPT !.udscs = Append(@, Message(type, arg1, arg2, data, 0))]

\* udscs_write(x11->vdagentd, VDAGENTD_CLIPBOARD_DATA, selection, type, ...)
\* as the answer to daemon request req.
udscs_write_data(c, selection, type, data, req) ==
    [c EXCEPT !.udscs = Append(@, Message("CLIPBOARD_DATA", selection, type,
                                          data, req))]

XCall(op, window, selection, target, property, type, format, data, id) ==
    [op |-> op, window |-> window, selection |-> selection, target |-> target,
     property |-> property, type |-> type, format |-> format, data |-> data,
     id |-> id]

XRequest(c, call) == [c EXCEPT !.xout = Append(@, call)]

\* vdagent_x11_do_read: while (XPending(display)) { XNextEvent;
\* vdagent_x11_handle_event }.  It returns when the library's queue is
\* empty and its output buffer flushed; the events it hands to
\* vdagent_x11_handle_event are the event actions below.
vdagent_x11_do_read(c) == [c EXCEPT !.read = Len(c.xout)]

\* id numbers the conversion request the call is issued for (0: none).
XConvertSelection(c, selection, target, property, id) ==
    XRequest(c, XCall("XConvertSelection", selection_window, selection, target,
                      property, None, 0, <<>>, id))

\* event is the SelectionRequest event whose requestor the property is
\* written on.
XChangeProperty(c, event, property, type, format, data) ==
    XRequest(c, XCall("XChangeProperty", event.requestor, None, None, property,
                      type, format, data, event.id))

XDeleteProperty(c, window, property) ==
    XRequest(c, XCall("XDeleteProperty", window, None, None, property, None,
                      0, <<>>, 0))

XSelectInput(c, window, id) ==
    XRequest(c, XCall("XSelectInput", window, None, None, None, None, 0,
                      <<>>, id))

XSetSelectionOwner(c, selection, owner) ==
    XRequest(c, XCall("XSetSelectionOwner", owner, selection, None, None, None,
                      0, <<>>, 0))

\* XGetWindowProperty(..., delete, ...): the request is recorded when it
\* deletes the property it read.
XGetWindowPropertyDelete(c, window, property) ==
    XRequest(c, XCall("XGetWindowProperty", window, None, None, property, None,
                      0, <<>>, 0))


(***************************************************************************)
(* Lookups.                                                                *)
(***************************************************************************)
\* vdagent_x11_get_clipboard_atom: the selection's atom, None for a
\* selection id the bridge does not know (the function returns -1).
vdagent_x11_get_clipboard_atom(selection) ==
    IF selection = VD_AGENT_CLIPBOARD_SELECTION_CLIPBOARD THEN clipboard_atom
    ELSE IF selection = VD_AGENT_CLIPBOARD_SELECTION_PRIMARY
         THEN clipboard_primary_atom
         ELSE None

\* vdagent_x11_get_clipboard_selection: the selection id of an event's
\* selection atom, -1 for another atom.
vdagent_x11_get_clipboard_selection(atom) ==
    IF atom = clipboard_atom THEN VD_AGENT_CLIPBOARD_SELECTION_CLIPBOARD
    ELSE IF atom = clipboard_primary_atom
         THEN VD_AGENT_CLIPBOARD_SELECTION_PRIMARY
         ELSE -1

\* What the read of clipboard_formats[clipboard_format_count].atom_count can
\* make vdagent_x11_target_to_type return.  The read is past the end of the
\* array, so the build decides: NONE when the word read is not positive (the
\* loops end), or the type field of whatever entry the stray words make
\* match; the type of the first format stands for the latter.
OobOutcomes ==
    {VD_AGENT_CLIPBOARD_NONE, clipboard_format_templates[1].type}

\* vdagent_x11_target_to_type.  The inner loop increments i, not j: it
\* compares target with atoms[0] of formats i, i+1, ... and leaves the table
\* when none of them matches; oob is what the build yields then.
vdagent_x11_target_to_type(target) ==
    LET hits == {i \in 1..clipboard_format_count :
                   clipboard_format_templates[i].atoms[1] = target}
    IN IF hits = {} THEN oob
       ELSE clipboard_format_templates[CHOOSE i \in hits :
                                         \A k \in hits : i <= k].type

\* The entries of clipboard_formats whose atom_count the loops of
\* vdagent_x11_target_to_type read for target: entries 1, 2, ... up to the
\* first whose atoms[0] is target, or one entry past the table when there
\* is none (the inner loop leaves i at clipboard_format_count and tests
\* j < clipboard_formats[i].atom_count again).
target_to_type_reads(target) ==
    LET hits == {i \in 1..clipboard_format_count :
                   clipboard_format_templates[i].atoms[1] = target}
    IN IF hits = {} THEN 1..(clipboard_format_count + 1)
       ELSE 1..(CHOOSE i \in hits : \A k \in hits : i <= k)

\* vdagent_x11_type_to_target without the comparison of the types: the
\* first target of the catalog for any type.
type_to_target_any(x, selection, type) ==
    IF x.clipboard_agent_types[selection] = <<>> THEN None
    ELSE x.clipboard_x11_targets[selection][1]

\* vdagent_x11_type_to_target: the atom recorded for type, None when the
\* catalog of the selection does not hold the type.
vdagent_x11_type_to_target(x, selection, type) ==
    LET types == x.clipboard_agent_types[selection]
        hits == {i \in 1..Len(types) : types[i] = type}
    IN IF hits = {} THEN None
       ELSE x.clipboard_x11_targets[selection][CHOOSE i \in hits :
                                                 \A k \in hits : i <= k]

\* atom_lists_overlap walking atoms2 in the outer loop: the first atom of
\* atoms2 that atoms1 holds.
atom_lists_overlap_swapped(atoms1, atoms2) ==
    LET hits == {j \in 1..Len(atoms2) :
                   \E i \in 1..Len(atoms1) : atoms1[i] = atoms2[j]}
    IN IF hits = {} THEN None
       ELSE atoms2[CHOOSE j \in hits : \A k \in hits : j <= k]

\* atom_lists_overlap: the first atom of atoms1 that atoms2 holds, else None
\* (0 in the code).
atom_lists_overlap(atoms1, atoms2) ==
    LET hits == {i \in 1..Len(atoms1) :
                   \E j \in 1..Len(atoms2) : atoms1[i] = atoms2[j]}
    IN IF hits = {} THEN None
       ELSE atoms1[CHOOSE i \in hits : \A k \in hits : i <= k]

(***************************************************************************)
(* Selection requests (X11 requestor <- daemon) and their replies.         *)
(***************************************************************************)
\* The XSendEvent of vdagent_x11_send_selection_notify.
SelectionNotifyEvent(prop, request) ==
    XCall("XSendEvent", request.requestor,
          vdagent_x11_get_clipboard_atom(request.selection), request.target,
          prop, None, 0, <<>>, request.id)

\* The reset of the INCR-send fields done where the buffer is freed.
selection_req_data_free(x) ==
    [x EXCEPT !.selection_req_data = <<>>,
              !.selection_req_data_pos = 0,
              !.selection_req_data_size = 0,
              !.selection_req_atom = None]

\* vdagent_x11_next_selection_request
vdagent_x11_next_selection_request(c) ==
    [c EXCEPT !.x11.selection_req = Tail(@)]

\* vdagent_x11_next_conversion_request
vdagent_x11_next_conversion_request(c) ==
    [c EXCEPT !.x11.conversion_req = Tail(@)]

\* The list of vdagent_x11_send_targets with the first atom of each format
\* only.
RECURSIVE TargetsOfTypes_first(_)
TargetsOfTypes_first(types) ==
    IF types = <<>> THEN <<>>
    ELSE LET fmts == SelectSeq(clipboard_format_templates,
                               LAMBDA f : f.type = Head(types))
         IN [i \in 1..Len(fmts) |-> fmts[i].atoms[1]]
            \o TargetsOfTypes_first(Tail(types))

\* vdagent_x11_send_targets, the property it writes: TARGETS, then every
\* atom of every format whose type is in the catalog of the selection.
RECURSIVE TargetsOfTypes(_)
TargetsOfTypes(types) ==
    IF types = <<>> THEN <<>>
    ELSE LET fmts == SelectSeq(clipboard_format_templates,
                               LAMBDA f : f.type = Head(types))
             RECURSIVE Atoms(_)
             Atoms(fs) == IF fs = <<>> THEN <<>>
                          ELSE Head(fs).atoms \o Atoms(Tail(fs))
         IN Atoms(fmts) \o TargetsOfTypes(Tail(types))

\* The property of a request taken as the event gives it, None included.
RequestProperty_raw(request) == request.property

RequestProperty(request) ==
    IF request.property = None THEN request.target ELSE request.property

\* vdagent_x11_handle_selection_request serving the head whoever owns its
\* selection.
RECURSIVE handle_selection_request_noowner(_)
handle_selection_request_noowner(c) ==
    IF c.x11.selection_req = <<>> THEN c
    ELSE LET req == Head(c.x11.selection_req)
             selection == req.selection
             type == vdagent_x11_target_to_type(req.target)
             refuse == handle_selection_request_noowner(
                           vdagent_x11_next_selection_request(
                               XRequest(c, SelectionNotifyEvent(None, req))))
         IN IF req.target = multiple_atom THEN refuse
            ELSE IF req.target = targets_atom
                 THEN handle_selection_request_noowner(
                          vdagent_x11_next_selection_request(
                              XRequest(
                                  XChangeProperty(c, req,
                                      RequestProperty(req), XA_ATOM, 32,
                                      <<targets_atom>> \o TargetsOfTypes(
                                          c.x11.clipboard_agent_types[selection])),
                                  SelectionNotifyEvent(RequestProperty(req), req))))
            ELSE IF type = VD_AGENT_CLIPBOARD_NONE THEN refuse
            ELSE [c EXCEPT !.udscs = Append(@, Message("CLIPBOARD_REQUEST",
                                                       selection, type, <<>>,
                                                       req.id))]

\* vdagent_x11_handle_selection_request, with the
\* vdagent_x11_send_selection_notify(x11, prop, NULL) calls it makes: each
\* sends the reply for the head, frees it and handles the next head.
RECURSIVE vdagent_x11_handle_selection_request(_)
vdagent_x11_handle_selection_request(c) ==
    IF c.x11.selection_req = <<>> THEN c
    ELSE LET req == Head(c.x11.selection_req)
             selection == req.selection
             type == vdagent_x11_target_to_type(req.target)
             refuse == vdagent_x11_handle_selection_request(
                           vdagent_x11_next_selection_request(
                               XRequest(c, SelectionNotifyEvent(None, req))))
         IN IF c.x11.clipboard_owner[selection] # owner_client THEN refuse
            ELSE IF req.target = multiple_atom THEN refuse
            ELSE IF req.target = targets_atom
                 THEN vdagent_x11_handle_selection_request(
                          vdagent_x11_next_selection_request(
                              XRequest(
                                  XChangeProperty(c, req,
                                      RequestProperty(req), XA_ATOM, 32,
                                      <<targets_atom>> \o TargetsOfTypes(
                                          c.x11.clipboard_agent_types[selection])),
                                  SelectionNotifyEvent(RequestProperty(req), req))))
            ELSE IF type = VD_AGENT_CLIPBOARD_NONE THEN refuse
            ELSE [c EXCEPT !.udscs = Append(@, Message("CLIPBOARD_REQUEST",
                                                       selection, type, <<>>,
                                                       req.id))]

\* vdagent_x11_handle_conversion_request
vdagent_x11_handle_conversion_request(c) ==
    IF c.x11.conversion_req = <<>> THEN c
    ELSE LET clip == vdagent_x11_get_clipboard_atom(
                         Head(c.x11.conversion_req).selection)
         IN XConvertSelection(c, clip, Head(c.x11.conversion_req).target, clip,
                              Head(c.x11.conversion_req).id)

(***************************************************************************)
(* vdagent_x11_set_clipboard_owner                                         *)
(***************************************************************************)
\* The first loop unlinking the requests without dropping the INCR-send
\* buffer of the head.
set_clipboard_owner_selection_reqs_nofree(c, selection) ==
    LET q == c.x11.selection_req
        gone == SelectSeq(q, LAMBDA r : r.selection = selection)
        kept == SelectSeq(q, LAMBDA r : r.selection # selection)
    IN [c EXCEPT !.x11.selection_req = kept,
                 !.xout = @ \o [i \in 1..Len(gone) |->
                                   SelectionNotifyEvent(None, gone[i])]]

\* First loop: every selection request of the selection is refused and
\* unlinked; the INCR-send buffer is dropped when the head is among them.
set_clipboard_owner_selection_reqs(c, selection) ==
    LET q == c.x11.selection_req
        gone == SelectSeq(q, LAMBDA r : r.selection = selection)
        kept == SelectSeq(q, LAMBDA r : r.selection # selection)
        head_gone == q # <<>> /\ Head(q).selection = selection
        x1 == [c.x11 EXCEPT !.selection_req = kept]
    IN [c EXCEPT !.x11 = IF head_gone THEN selection_req_data_free(x1) ELSE x1,
                 !.xout = @ \o [i \in 1..Len(gone) |->
                                   SelectionNotifyEvent(None, gone[i])]]

\* The second loop unlinking the requests without clearing the INCR-receive
\* state of the head.
set_clipboard_owner_conversion_reqs_noclear(c, selection) ==
    LET q == c.x11.conversion_req
        gone == SelectSeq(q, LAMBDA r : r.selection = selection)
        kept == SelectSeq(q, LAMBDA r : r.selection # selection)
    IN [c EXCEPT !.x11.conversion_req = kept,
                 !.udscs = @ \o [i \in 1..Len(gone) |->
                                   Message("CLIPBOARD_DATA", selection,
                                           VD_AGENT_CLIPBOARD_NONE, <<>>,
                                           gone[i].id)]]

\* vdagent_x11_set_clipboard_owner's second loop answering the requests of
\* the selection without unlinking them.
set_clipboard_owner_conversion_reqs_keep(c, selection) ==
    LET q == c.x11.conversion_req
        gone == SelectSeq(q, LAMBDA r : r.selection = selection)
    IN [c EXCEPT !.udscs = @ \o [i \in 1..Len(gone) |->
                                   Message("CLIPBOARD_DATA", selection,
                                           VD_AGENT_CLIPBOARD_NONE, <<>>,
                                           gone[i].id)]]

\* Second loop: every conversion request of the selection is answered with
\* CLIPBOARD_DATA NONE and unlinked; the INCR-receive state is cleared when
\* the head is among them.
set_clipboard_owner_conversion_reqs(c, selection) ==
    LET q == c.x11.conversion_req
        gone == SelectSeq(q, LAMBDA r : r.selection = selection)
        kept == SelectSeq(q, LAMBDA r : r.selection # selection)
        head_gone == q # <<>> /\ Head(q).selection = selection
        x1 == [c.x11 EXCEPT !.conversion_req = kept]
    IN [c EXCEPT !.x11 = IF head_gone
                         THEN [x1 EXCEPT !.clipboard_data = <<>>,
                                         !.expect_property_notify = FALSE]
                         ELSE x1,
                 !.udscs = @ \o [i \in 1..Len(gone) |->
                                   Message("CLIPBOARD_DATA", selection,
                                           VD_AGENT_CLIPBOARD_NONE, <<>>,
                                           gone[i].id)]]

\* The tail sending the release message on every change to owner_none.
set_clipboard_owner_assign_always(c, selection, new_owner) ==
    LET c1 == IF new_owner = owner_none
              THEN udscs_write(c, "CLIPBOARD_RELEASE", selection, 0, <<>>)
              ELSE c
        x1 == IF new_owner = owner_none
              THEN [c1.x11 EXCEPT !.clipboard_agent_types[selection] = <<>>,
                                  !.clipboard_x11_targets[selection] = <<>>]
              ELSE c1.x11
    IN [c1 EXCEPT !.x11 = [x1 EXCEPT !.clipboard_owner[selection] = new_owner]]

\* The tail: the release message, the catalog reset and the assignment.
set_clipboard_owner_assign(c, selection, new_owner) ==
    LET c1 == IF new_owner = owner_none
                 /\ c.x11.clipboard_owner[selection] = owner_guest
              THEN udscs_write(c, "CLIPBOARD_RELEASE", selection, 0, <<>>)
              ELSE c
        x1 == IF new_owner = owner_none
              THEN [c1.x11 EXCEPT !.clipboard_agent_types[selection] = <<>>,
                                  !.clipboard_x11_targets[selection] = <<>>]
              ELSE c1.x11
    IN [c1 EXCEPT !.x11 = [x1 EXCEPT !.clipboard_owner[selection] = new_owner]]

\* vdagent_x11_set_clipboard_owner flushing the queues only when the owner
\* changes.
set_clipboard_owner_ifchanged(c, selection, new_owner) ==
    IF c.x11.clipboard_owner[selection] = new_owner
    THEN set_clipboard_owner_assign(c, selection, new_owner)
    ELSE set_clipboard_owner_assign(
             set_clipboard_owner_conversion_reqs(
                 set_clipboard_owner_selection_reqs(c, selection), selection),
             selection, new_owner)

vdagent_x11_set_clipboard_owner(c, selection, new_owner) ==
    set_clipboard_owner_assign(
        set_clipboard_owner_conversion_reqs(
            set_clipboard_owner_selection_reqs(c, selection), selection),
        selection, new_owner)


(***************************************************************************)
(* Conversion requests (daemon <- X11 selection owner).                    *)
(*                                                                         *)
(* An event is a record: for a SelectionNotify its selection (an atom),    *)
(* target, property and requestor; for a PropertyNotify its window and     *)
(* atom; and for both what XGetWindowProperty finds in the property:       *)
(* fetch_ok, prop_type, prop_format and prop_data.                         *)
(***************************************************************************)
\* vdagent_x11_get_selection.  Returns [c, len, data]: len is -1 on error,
\* 0 when more data is awaited, else the length of data.
get_selection_exit(c, incr, len, data) ==
    [c |-> IF incr THEN [c EXCEPT !.x11.clipboard_data = <<>>,
                                  !.x11.expect_property_notify = FALSE]
                   ELSE c,
     len |-> len, data |-> data]

\* vdagent_x11_get_selection starting an INCR receive for every property of
\* type INCR, one being received or not.
get_selection_reentrant(c, event, selection, type, prop, format, incr) ==
    IF ~incr /\ event.property = None
    THEN get_selection_exit(c, incr, -1, <<>>)
    ELSE IF ~incr /\ (event.requestor # selection_window \/ event.property # prop)
    THEN get_selection_exit(c, incr, -1, <<>>)
    ELSE IF ~event.fetch_ok
    THEN get_selection_exit(c, incr, -1, <<>>)
    ELSE
    LET \* XGetWindowProperty(..., del = incr, type, ...) deletes the
        \* property it read when its type is the one asked for.
        c0 == IF incr /\ event.prop_type = type
              THEN XGetWindowPropertyDelete(c, selection_window, prop)
              ELSE c
        is_incr == ~incr /\ prop # targets_atom /\ event.prop_type = incr_atom
        c1 == IF ~incr /\ prop # targets_atom /\ ~is_incr
              THEN XDeleteProperty(c0, selection_window, prop)
              ELSE c0
        len == Len(event.prop_data)
    IN IF is_incr
       THEN IF FALSE
            THEN get_selection_exit(c0, incr, -1, <<>>)
            ELSE [c |-> XDeleteProperty(
                            XSelectInput(
                                [c0 EXCEPT !.x11.expect_property_notify = TRUE],
                                selection_window, 0),
                            selection_window, prop),
                  len |-> 0, data |-> <<>>]
       ELSE IF event.prop_type # type
       THEN get_selection_exit(c1, incr, -1, <<>>)
       ELSE IF event.prop_format # format
       THEN get_selection_exit(c1, incr, -1, <<>>)
       ELSE IF incr /\ len > 0
       THEN [c |-> [c1 EXCEPT !.x11.clipboard_data = @ \o event.prop_data],
             len |-> 0, data |-> <<>>]
       ELSE LET data == IF incr THEN c1.x11.clipboard_data ELSE event.prop_data
            IN IF Len(data) > 0
               THEN get_selection_exit(c1, incr, Len(data), data)
               ELSE get_selection_exit(c1, incr, -1, <<>>)

vdagent_x11_get_selection(c, event, selection, type, prop, format, incr) ==
    IF ~incr /\ event.property = None
    THEN get_selection_exit(c, incr, -1, <<>>)
    ELSE IF ~incr /\ (event.requestor # selection_window \/ event.property # prop)
    THEN get_selection_exit(c, incr, -1, <<>>)
    ELSE IF ~event.fetch_ok
    THEN get_selection_exit(c, incr, -1, <<>>)
    ELSE
    LET \* XGetWindowProperty(..., del = incr, type, ...) deletes the
        \* property it read when its type is the one asked for.
        c0 == IF incr /\ event.prop_type = type
              THEN XGetWindowPropertyDelete(c, selection_window, prop)
              ELSE c
        is_incr == ~incr /\ prop # targets_atom /\ event.prop_type = incr_atom
        c1 == IF ~incr /\ prop # targets_atom /\ ~is_incr
              THEN XDeleteProperty(c0, selection_window, prop)
              ELSE c0
        len == Len(event.prop_data)
    IN IF is_incr
       THEN IF c.x11.expect_property_notify
            THEN get_selection_exit(c0, incr, -1, <<>>)
            ELSE [c |-> XDeleteProperty(
                            XSelectInput(
                                [c0 EXCEPT !.x11.expect_property_notify = TRUE],
                                selection_window, 0),
                            selection_window, prop),
                  len |-> 0, data |-> <<>>]
       ELSE IF event.prop_type # type
       THEN get_selection_exit(c1, incr, -1, <<>>)
       ELSE IF event.prop_format # format
       THEN get_selection_exit(c1, incr, -1, <<>>)
       ELSE IF incr /\ len > 0
       THEN [c |-> [c1 EXCEPT !.x11.clipboard_data = @ \o event.prop_data],
             len |-> 0, data |-> <<>>]
       ELSE LET data == IF incr THEN c1.x11.clipboard_data ELSE event.prop_data
            IN IF Len(data) > 0
               THEN get_selection_exit(c1, incr, Len(data), data)
               ELSE get_selection_exit(c1, incr, -1, <<>>)

\* vdagent_x11_handle_selection_notify
vdagent_x11_handle_selection_notify(c, event, incr) ==
    IF c.x11.conversion_req = <<>> THEN c
    ELSE
    LET req == Head(c.x11.conversion_req)
        clip == vdagent_x11_get_clipboard_atom(req.selection)
        ev_sel == vdagent_x11_get_clipboard_selection(event.selection)
        mismatch == ~incr /\ (\/ ev_sel = -1
                              \/ ev_sel # req.selection
                              \/ (event.target # req.target
                                  /\ event.target # incr_atom))
        type == vdagent_x11_target_to_type(req.target)
        got == IF mismatch THEN [c |-> c, len |-> -1, data |-> <<>>]
               ELSE vdagent_x11_get_selection(c, event, req.selection,
                                              req.target, clip, 8, incr)
        post == udscs_write_data(got.c, req.selection,
                                 IF got.len = -1 THEN VD_AGENT_CLIPBOARD_NONE
                                                 ELSE type,
                                 IF got.len = -1 THEN <<>> ELSE got.data,
                                 req.id)
    IN IF incr /\ (event.atom # clip \/ event.window # selection_window)
       THEN c
       ELSE IF got.len = 0 THEN got.c
       ELSE vdagent_x11_handle_conversion_request(
                vdagent_x11_next_conversion_request(post))

\* The catalog vdagent_x11_handle_targets_notify builds from the owner's
\* atoms: per format, in table order, its first atom the owner offers.
RECURSIVE TargetsCatalog(_, _)
TargetsCatalog(i, atoms) ==
    IF i > clipboard_format_count THEN <<>>
    ELSE LET atom == atom_lists_overlap(clipboard_format_templates[i].atoms,
                                        atoms)
         IN (IF atom # None
             THEN << [type |-> clipboard_format_templates[i].type,
                      atom |-> atom] >>
             ELSE <<>>) \o TargetsCatalog(i + 1, atoms)

\* vdagent_x11_handle_targets_notify taking every TARGETS reply for the
\* current owner's, whatever the number of replies still expected.
vdagent_x11_handle_targets_notify_every(c, event) ==
    LET selection == vdagent_x11_get_clipboard_selection(event.selection)
    IN IF selection = -1 THEN c
       ELSE IF c.x11.expected_targets_notifies[selection] = 0 THEN c
       ELSE
       LET c1 == [c EXCEPT !.x11.expected_targets_notifies[selection] = @ - 1]
           got == vdagent_x11_get_selection(c1, event, selection, XA_ATOM,
                                            targets_atom, 32, FALSE)
           cat == TargetsCatalog(1, got.data)
           c2 == [got.c EXCEPT
                    !.x11.clipboard_agent_types[selection] =
                        [i \in 1..Len(cat) |-> cat[i].type],
                    !.x11.clipboard_x11_targets[selection] =
                        [i \in 1..Len(cat) |-> cat[i].atom]]
       IN IF got.len = 0 \/ got.len = -1 THEN got.c
          ELSE IF cat = <<>> THEN c2
          ELSE vdagent_x11_set_clipboard_owner(
                   udscs_write(c2, "CLIPBOARD_GRAB", selection, 0,
                               [i \in 1..Len(cat) |-> cat[i].type]),
                   selection, owner_guest)

\* vdagent_x11_handle_targets_notify announcing the grab and making the
\* guest the owner whatever the catalog holds, an empty one too.
handle_targets_notify_always(c, event) ==
    LET selection == vdagent_x11_get_clipboard_selection(event.selection)
    IN IF selection = -1 THEN c
       ELSE IF c.x11.expected_targets_notifies[selection] = 0 THEN c
       ELSE
       LET c1 == [c EXCEPT !.x11.expected_targets_notifies[selection] = @ - 1]
           got == vdagent_x11_get_selection(c1, event, selection, XA_ATOM,
                                            targets_atom, 32, FALSE)
           cat == TargetsCatalog(1, got.data)
           c2 == [got.c EXCEPT
                    !.x11.clipboard_agent_types[selection] =
                        [i \in 1..Len(cat) |-> cat[i].type],
                    !.x11.clipboard_x11_targets[selection] =
                        [i \in 1..Len(cat) |-> cat[i].atom]]
       IN IF c1.x11.expected_targets_notifies[selection] # 0 THEN c1
          ELSE IF got.len = 0 \/ got.len = -1 THEN got.c
          ELSE vdagent_x11_set_clipboard_owner(
                   udscs_write(c2, "CLIPBOARD_GRAB", selection, 0,
                               [i \in 1..Len(cat) |-> cat[i].type]),
                   selection, owner_guest)

\* vdagent_x11_handle_targets_notify
vdagent_x11_handle_targets_notify(c, event) ==
    LET selection == vdagent_x11_get_clipboard_selection(event.selection)
    IN IF selection = -1 THEN c
       ELSE IF c.x11.expected_targets_notifies[selection] = 0 THEN c
       ELSE
       LET c1 == [c EXCEPT !.x11.expected_targets_notifies[selection] = @ - 1]
           got == vdagent_x11_get_selection(c1, event, selection, XA_ATOM,
                                            targets_atom, 32, FALSE)
           cat == TargetsCatalog(1, got.data)
           c2 == [got.c EXCEPT
                    !.x11.clipboard_agent_types[selection] =
                        [i \in 1..Len(cat) |-> cat[i].type],
                    !.x11.clipboard_x11_targets[selection] =
                        [i \in 1..Len(cat) |-> cat[i].atom]]
       IN IF c1.x11.expected_targets_notifies[selection] # 0 THEN c1
          ELSE IF got.len = 0 \/ got.len = -1 THEN got.c
          ELSE IF cat = <<>> THEN c2
          ELSE vdagent_x11_set_clipboard_owner(
                   udscs_write(c2, "CLIPBOARD_GRAB", selection, 0,
                               [i \in 1..Len(cat) |-> cat[i].type]),
                   selection, owner_guest)


(***************************************************************************)
(* INCR send and the daemon's messages.                                    *)
(***************************************************************************)
\* vdagent_x11_handle_property_delete_notify taking every chunk from the
\* start of the buffer.
handle_property_delete_notify_nocursor(c, del_event) ==
    LET x == c.x11
        req == Head(x.selection_req)
        rest == x.selection_req_data_size - x.selection_req_data_pos
        len == IF rest > max_prop_size THEN max_prop_size ELSE rest
        c1 == XChangeProperty(c, req, x.selection_req_atom, req.target, 8,
                              SubSeqFrom(x.selection_req_data, 1, len))
        c2 == [c1 EXCEPT !.x11.selection_req_data_pos = @ + len]
    IN IF del_event.window # req.requestor
          \/ del_event.atom # x.selection_req_atom
       THEN c
       ELSE IF len # 0 THEN c2
       ELSE vdagent_x11_handle_selection_request(
                vdagent_x11_next_selection_request(
                    [c2 EXCEPT !.x11 = selection_req_data_free(@)]))

\* vdagent_x11_handle_property_delete_notify going on to the next request
\* after the last chunk with the buffer of the finished one still set.
handle_property_delete_notify_keepbuf(c, del_event) ==
    LET x == c.x11
        req == Head(x.selection_req)
        rest == x.selection_req_data_size - x.selection_req_data_pos
        len == IF rest > max_prop_size THEN max_prop_size ELSE rest
        c1 == XChangeProperty(c, req, x.selection_req_atom,
                              req.target, 8,
                              SubSeqFrom(x.selection_req_data,
                                         x.selection_req_data_pos + 1, len))
        c2 == [c1 EXCEPT !.x11.selection_req_data_pos = @ + len]
    IN IF del_event.window # req.requestor
          \/ del_event.atom # x.selection_req_atom
       THEN c
       ELSE IF len # 0 THEN c2
       ELSE vdagent_x11_handle_selection_request(
                vdagent_x11_next_selection_request(c2))

\* vdagent_x11_handle_property_delete_notify
vdagent_x11_handle_property_delete_notify(c, del_event) ==
    LET x == c.x11
        req == Head(x.selection_req)
        rest == x.selection_req_data_size - x.selection_req_data_pos
        len == IF rest > max_prop_size THEN max_prop_size ELSE rest
        c1 == XChangeProperty(c, req, x.selection_req_atom,
                              req.target, 8,
                              SubSeqFrom(x.selection_req_data,
                                         x.selection_req_data_pos + 1, len))
        c2 == [c1 EXCEPT !.x11.selection_req_data_pos = @ + len]
    IN IF del_event.window # req.requestor
          \/ del_event.atom # x.selection_req_atom
       THEN c
       ELSE IF len # 0 THEN c2
       ELSE vdagent_x11_handle_selection_request(
                vdagent_x11_next_selection_request(
                    [c2 EXCEPT !.x11 = selection_req_data_free(@)]))

\* vdagent_x11_clipboard_request converting every request at once, queued
\* behind another or not.
vdagent_x11_clipboard_request_eager(c, selection, type, id, alloc_ok) ==
    LET none == udscs_write_data(c, selection, VD_AGENT_CLIPBOARD_NONE, <<>>, id)
        target == vdagent_x11_type_to_target(c.x11, selection, type)
        new_req == [target |-> target, selection |-> selection, id |-> id,
                    type |-> type]
        clip == vdagent_x11_get_clipboard_atom(selection)
    IN IF clip = None \/ c.x11.clipboard_owner[selection] # owner_guest
          \/ target = None
       THEN none
       ELSE XConvertSelection(
                [c EXCEPT !.x11.conversion_req = Append(@, new_req)],
                clip, target, clip, id)

\* vdagent_x11_clipboard_request linking the new request in front of the
\* queue instead of behind it.
vdagent_x11_clipboard_request_front(c, selection, type, id, alloc_ok) ==
    LET none == udscs_write_data(c, selection, VD_AGENT_CLIPBOARD_NONE, <<>>, id)
        target == vdagent_x11_type_to_target(c.x11, selection, type)
        new_req == [target |-> target, selection |-> selection, id |-> id,
                    type |-> type]
    IN IF vdagent_x11_get_clipboard_atom(selection) = None
          \/ c.x11.clipboard_owner[selection] # owner_guest
          \/ target = None
       THEN none
       ELSE IF c.x11.conversion_req = <<>>
       THEN vdagent_x11_handle_conversion_request(
                [c EXCEPT !.x11.conversion_req = <<new_req>>])
       ELSE [c EXCEPT !.x11.conversion_req = <<new_req>> \o @]

\* vdagent_x11_clipboard_request.  id numbers the request; alloc_ok is
\* whether malloc returns a request slot.  The queued record holds the
\* struct's target and selection; id and type are kept beside them for the
\* properties only, no handler reads them.
vdagent_x11_clipboard_request(c, selection, type, id, alloc_ok) ==
    LET none == udscs_write_data(c, selection, VD_AGENT_CLIPBOARD_NONE, <<>>, id)
    IN IF vdagent_x11_get_clipboard_atom(selection) = None THEN none
       ELSE IF c.x11.clipboard_owner[selection] # owner_guest THEN none
       ELSE
       LET target == vdagent_x11_type_to_target(c.x11, selection, type)
           new_req == [target |-> target, selection |-> selection, id |-> id,
                    type |-> type]
       IN IF target = None THEN none
          ELSE IF ~alloc_ok THEN c
          ELSE IF c.x11.conversion_req = <<>>
          THEN vdagent_x11_do_read(
                   vdagent_x11_handle_conversion_request(
                       [c EXCEPT !.x11.conversion_req = <<new_req>>]))
          ELSE [c EXCEPT !.x11.conversion_req = Append(@, new_req)]

\* vdagent_x11_clipboard_grab returning to the main loop without the final
\* vdagent_x11_do_read.
vdagent_x11_clipboard_grab_noread(c, selection, types) ==
    LET clip == vdagent_x11_get_clipboard_atom(selection)
        old == c.x11.clipboard_x11_targets[selection]
        c1 == [c EXCEPT
                 !.x11.clipboard_agent_types[selection] = types,
                 !.x11.clipboard_x11_targets[selection] =
                     [i \in 1..Len(types) |->
                         IF i <= Len(old) THEN old[i] ELSE None]]
    IN IF clip = None THEN c
       ELSE vdagent_x11_set_clipboard_owner(
                XSetSelectionOwner(c1, clip, selection_window),
                selection, owner_client)

\* vdagent_x11_clipboard_grab.  memcpy overwrites clipboard_agent_types only:
\* the x11 target recorded at an index stays what it was (None, the calloc
\* value, where the catalog held no entry).
vdagent_x11_clipboard_grab(c, selection, types) ==
    LET clip == vdagent_x11_get_clipboard_atom(selection)
        old == c.x11.clipboard_x11_targets[selection]
        c1 == [c EXCEPT
                 !.x11.clipboard_agent_types[selection] = types,
                 !.x11.clipboard_x11_targets[selection] =
                     [i \in 1..Len(types) |->
                         IF i <= Len(old) THEN old[i] ELSE None]]
    IN IF clip = None THEN c
       ELSE vdagent_x11_do_read(
                vdagent_x11_set_clipboard_owner(
                    XSetSelectionOwner(c1, clip, selection_window),
                    selection, owner_client))

\* vdagent_x11_clipboard_data refusing the head on a mismatch and leaving
\* it at the head of the queue.
vdagent_x11_clipboard_data_stay(c, selection, type, data) ==
    IF c.x11.selection_req_data # <<>> THEN c
    ELSE IF c.x11.selection_req = <<>> THEN c
    ELSE
    LET req == Head(c.x11.selection_req)
        type_from_event == vdagent_x11_target_to_type(req.target)
        prop == RequestProperty(req)
        size == Len(data)
    IN IF type_from_event # type \/ selection # req.selection
       THEN vdagent_x11_do_read(XRequest(c, SelectionNotifyEvent(None, req)))
       ELSE IF size > max_prop_size
       THEN vdagent_x11_do_read(
                XRequest(
                    XChangeProperty(
                        XSelectInput(
                            [c EXCEPT !.x11.selection_req_data = data,
                                      !.x11.selection_req_data_pos = 0,
                                      !.x11.selection_req_data_size = size,
                                      !.x11.selection_req_atom = prop],
                            req.requestor, req.id),
                        req, prop, incr_atom, 32, <<size>>),
                    SelectionNotifyEvent(prop, req)))
       ELSE vdagent_x11_do_read(
                vdagent_x11_handle_selection_request(
                    vdagent_x11_next_selection_request(
                        XRequest(
                            XChangeProperty(c, req, prop, req.target, 8, data),
                            SelectionNotifyEvent(prop, req)))))

\* vdagent_x11_clipboard_data refusing the request being served when data
\* arrives during its INCR send, and going on to the next.
vdagent_x11_clipboard_data_busy(c, selection, type, data) ==
    IF c.x11.selection_req_data # <<>>
    THEN vdagent_x11_do_read(
             vdagent_x11_handle_selection_request(
                 vdagent_x11_next_selection_request(
                     XRequest([c EXCEPT !.x11 = selection_req_data_free(@)],
                              SelectionNotifyEvent(
                                  None, Head(c.x11.selection_req))))))
    ELSE IF c.x11.selection_req = <<>> THEN c
    ELSE
    LET req == Head(c.x11.selection_req)
        type_from_event == vdagent_x11_target_to_type(req.target)
        prop == RequestProperty(req)
        size == Len(data)
    IN IF type_from_event # type \/ selection # req.selection
       THEN vdagent_x11_do_read(
                vdagent_x11_handle_selection_request(
                    vdagent_x11_next_selection_request(
                        XRequest(c, SelectionNotifyEvent(None, req)))))
       ELSE IF size > max_prop_size
       THEN vdagent_x11_do_read(
                XRequest(
                    XChangeProperty(
                        XSelectInput(
                            [c EXCEPT !.x11.selection_req_data = data,
                                      !.x11.selection_req_data_pos = 0,
                                      !.x11.selection_req_data_size = size,
                                      !.x11.selection_req_atom = prop],
                            req.requestor, req.id),
                        req, prop, incr_atom, 32, <<size>>),
                    SelectionNotifyEvent(prop, req)))
       ELSE vdagent_x11_do_read(
                vdagent_x11_handle_selection_request(
                    vdagent_x11_next_selection_request(
                        XRequest(
                            XChangeProperty(c, req, prop, req.target, 8, data),
                            SelectionNotifyEvent(prop, req)))))

\* vdagent_x11_clipboard_data
vdagent_x11_clipboard_data(c, selection, type, data) ==
    IF c.x11.selection_req_data # <<>> THEN c
    ELSE IF c.x11.selection_req = <<>> THEN c
    ELSE
    LET req == Head(c.x11.selection_req)
        type_from_event == vdagent_x11_target_to_type(req.target)
        prop == RequestProperty(req)
        size == Len(data)
    IN IF type_from_event # type \/ selection # req.selection
       THEN vdagent_x11_do_read(
                vdagent_x11_handle_selection_request(
                    vdagent_x11_next_selection_request(
                        XRequest(c, SelectionNotifyEvent(None, req)))))
       ELSE IF size > max_prop_size
       THEN vdagent_x11_do_read(
                XRequest(
                    XChangeProperty(
                        XSelectInput(
                            [c EXCEPT !.x11.selection_req_data = data,
                                      !.x11.selection_req_data_pos = 0,
                                      !.x11.selection_req_data_size = size,
                                      !.x11.selection_req_atom = prop],
                            req.requestor, req.id),
                        req, prop, incr_atom, 32, <<size>>),
                    SelectionNotifyEvent(prop, req)))
       ELSE vdagent_x11_do_read(
                vdagent_x11_handle_selection_request(
                    vdagent_x11_next_selection_request(
                        XRequest(
                            XChangeProperty(c, req, prop, req.target, 8, data),
                            SelectionNotifyEvent(prop, req)))))

\* The XFixes branch without the test for selection_window: the bridge's
\* own ownership is handled like that of a local application.
handle_event_xfixes_self(c, selection, owner) ==
    LET c1 == vdagent_x11_set_clipboard_owner(c, selection, owner_none)
    IN IF owner = NoWindow THEN c1
       ELSE [XConvertSelection(c1, vdagent_x11_get_clipboard_atom(selection),
                               targets_atom, targets_atom, 0)
               EXCEPT !.x11.expected_targets_notifies[selection] = @ + 1]

\* The XFixes branch of vdagent_x11_handle_event, for a notification that
\* names owner as the owner of selection (NoWindow also for the window
\* destroy and client close subtypes).
handle_event_xfixes(c, selection, owner) ==
    LET c1 == vdagent_x11_set_clipboard_owner(c, selection, owner_none)
    IN IF owner = selection_window THEN c
       ELSE IF owner = NoWindow THEN c1
       ELSE [XConvertSelection(c1, vdagent_x11_get_clipboard_atom(selection),
                               targets_atom, targets_atom, 0)
               EXCEPT !.x11.expected_targets_notifies[selection] = @ + 1]

\* vdagent_x11_clipboard_release returning after XSetSelectionOwner(None),
\* the XFixes notification of the change left for later.
clipboard_release_nosync(c, selection) ==
    LET clip == vdagent_x11_get_clipboard_atom(selection)
    IN IF clip = None THEN c
       ELSE IF c.x11.clipboard_owner[selection] # owner_client THEN c
       ELSE XSetSelectionOwner(c, clip, NoWindow)

\* vdagent_x11_clipboard_release: XSetSelectionOwner(None), XSync, and the
\* XFixes notification of that change handled before the function returns.
vdagent_x11_clipboard_release(c, selection) ==
    LET clip == vdagent_x11_get_clipboard_atom(selection)
    IN IF clip = None THEN c
       ELSE IF c.x11.clipboard_owner[selection] # owner_client THEN c
       ELSE vdagent_x11_do_read(
                handle_event_xfixes(XSetSelectionOwner(c, clip, NoWindow),
                                    selection, NoWindow))

\* The SelectionRequest branch handling the new request at once, whatever
\* is queued before it.
handle_event_selection_request_jump(c, new_req, alloc_ok) ==
    LET served == vdagent_x11_handle_selection_request(
                      [c EXCEPT !.x11.selection_req = <<new_req>>])
    IN IF ~alloc_ok THEN c
       ELSE [served EXCEPT !.x11.selection_req = c.x11.selection_req \o @]

\* The SelectionRequest branch of vdagent_x11_handle_event.
handle_event_selection_request(c, new_req, alloc_ok) ==
    IF ~alloc_ok THEN c
    ELSE IF c.x11.selection_req = <<>>
    THEN vdagent_x11_handle_selection_request(
             [c EXCEPT !.x11.selection_req = <<new_req>>])
    ELSE [c EXCEPT !.x11.selection_req = Append(@, new_req)]

\* The SelectionNotify branch of vdagent_x11_handle_event.
handle_event_selection_notify(c, event) ==
    IF event.target = targets_atom
    THEN vdagent_x11_handle_targets_notify(c, event)
    ELSE vdagent_x11_handle_selection_notify(c, event, FALSE)

\* The PropertyNotify branch of vdagent_x11_handle_event; state is
\* "NewValue" or "Delete".
handle_event_property_notify(c, event, state) ==
    LET c1 == IF c.x11.expect_property_notify /\ state = "NewValue"
              THEN vdagent_x11_handle_selection_notify(c, event, TRUE)
              ELSE c
    IN IF c1.x11.selection_req_data # <<>> /\ state = "Delete"
       THEN vdagent_x11_handle_property_delete_notify(c1, event)
       ELSE c1


(***************************************************************************)
(* The environment: the daemon, the X server, selection owners and         *)
(* requestors.                                                             *)
(***************************************************************************)
\* The atom lists an owner answers a TARGETS conversion with.
TargetLists ==
    { <<"UTF8_STRING">>,
      <<"text/plain;charset=UTF-8", "STRING">>,
      <<"STRING">> }

\* The type lists of the daemon's CLIPBOARD_GRAB.
GrabTypeLists ==
    { <<VD_AGENT_CLIPBOARD_UTF8_TEXT>>,
      <<VD_AGENT_CLIPBOARD_UTF8_TEXT, VD_AGENT_CLIPBOARD_IMAGE_PNG>> }

\* The types of the daemon's CLIPBOARD_REQUEST.
RequestTypes == {VD_AGENT_CLIPBOARD_UTF8_TEXT, VD_AGENT_CLIPBOARD_IMAGE_PNG}

\* The requestors' SelectionRequest events: target, requestor window and
\* property (None: an old client, the target names the property).
RequestShapes ==
    { [target |-> targets_atom, requestor |-> 3, property |-> None],
      [target |-> "UTF8_STRING", requestor |-> 2, property |-> "P"],
      [target |-> "image/png", requestor |-> 3, property |-> "P"],
      [target |-> "text/plain;charset=UTF-8", requestor |-> 3,
       property |-> None] }

\* The payload sizes of the daemon's CLIPBOARD_DATA.
DataSizes == {max_prop_size, MaxData}

\* The daemon's answers to a CLIPBOARD_REQUEST for type: data of that type,
\* or type NONE and no data.
DataReplies(type) ==
    {[type |-> type, data |-> Bytes(size)] : size \in DataSizes}
    \cup {[type |-> VD_AGENT_CLIPBOARD_NONE, data |-> <<>>]}

Event(selection, target, property, requestor, window, atom, fetch_ok, prop_type, prop_format, prop_data) ==
    [selection |-> selection, target |-> target, property |-> property,
     requestor |-> requestor, window |-> window, atom |-> atom,
     fetch_ok |-> fetch_ok, prop_type |-> prop_type,
     prop_format |-> prop_format, prop_data |-> prop_data]

\* The SelectionNotify events that can answer conversion conv: the owner
\* (or the server, when there is none) refuses with property None, or the
\* owner has written the property and names it in the event.
SelectionNotifyEvents(conv) ==
    LET ev(property, ok, type, format, data) ==
            Event(conv.selection, conv.target, property, selection_window,
                  selection_window, None, ok, type, format, data)
    IN {ev(None, TRUE, None, 0, <<>>),
        ev(conv.property, FALSE, None, 0, <<>>),
        ev(conv.property, TRUE, "STRING", 8, Bytes(1))}
       \cup
       (IF conv.target = targets_atom
        THEN {ev(conv.property, TRUE, XA_ATOM, 32, l) : l \in TargetLists}
        ELSE {ev(conv.property, TRUE, conv.target, 8, Bytes(n)) :
                 n \in 0..1}
             \cup {ev(conv.property, TRUE, conv.target, 16, Bytes(1)),
                   ev(conv.property, TRUE, incr_atom, 32, <<MaxIncr>>)})

NoPeerIncr == [sent |-> -1, target |-> None]

Calls(c, op) == SelectSeq(c.xout, LAMBDA call : call.op = op)

Messages(c, type) == SelectSeq(c.udscs, LAMBDA m : m.type = type)

RemoveAt(seq, i) == [j \in 1..(Len(seq) - 1) |-> IF j < i THEN seq[j] ELSE seq[j + 1]]

\* What every handler leaves behind: the struct, its output, and the
\* reaction of the peers to that output.  convs and reqs are the
\* conversions and daemon requests still outstanding before the handler's
\* own are added; props are the requestor properties not yet deleted.
Commit(c, convs, reqs, props) ==
    LET masked == (xmask \cup {c.xout[i].window :
                                 i \in {j \in 1..Len(c.xout) :
                                          c.xout[j].op = "XSelectInput"}})
                  \ {selection_window}
        writes == {c.xout[i] : i \in {j \in 1..Len(c.xout) :
                                        c.xout[j].op = "XChangeProperty"}}
        sends == Calls(c, "XSendEvent")
        datas == Messages(c, "CLIPBOARD_DATA")
        converts == Calls(c, "XConvertSelection")
        requests == Messages(c, "CLIPBOARD_REQUEST")
    IN /\ x11' = c.x11
       /\ udscs' = c.udscs
       /\ xout' = c.xout
       /\ xread' = c.read
       /\ xconv' = convs \o [i \in 1..Len(converts) |->
                               [selection |-> converts[i].selection,
                                target |-> converts[i].target,
                                property |-> converts[i].property,
                                id |-> converts[i].id]]
       /\ dreq' = reqs \o [i \in 1..Len(requests) |->
                             [selection |-> requests[i].arg1,
                              type |-> requests[i].arg2,
                              req |-> requests[i].req]]
       /\ xmask' = masked
       /\ xprops' = props \cup {<<w.window, w.property>> :
                                  w \in {v \in writes : v.window \in masked}}
       /\ answers' = [i \in 1..MaxReq |->
                        answers[i] + Len(SelectSeq(datas, LAMBDA m : m.req = i))]
       /\ notifies' = [i \in 1..MaxSelReq |->
                         notifies[i] + Len(SelectSeq(sends, LAMBDA e : e.id = i))]
       /\ issued' = [conv |-> issued.conv \cup
                                ({converts[i].id : i \in 1..Len(converts)}
                                 \ {0}),
                     sel |-> issued.sel \cup
                               {requests[i].req : i \in 1..Len(requests)}
                               \cup ({c.xout[i].id :
                                        i \in {j \in 1..Len(c.xout) :
                                                 c.xout[j].op #
                                                     "XConvertSelection"}}
                                     \ {0})]

\* incr_tx after handler output c: a property of type INCR begins a
\* record, a later property written for the same request adds to it.
\* deleted: the event handled was the deletion of the property of the INCR
\* send under way.
IncrTx(c, deleted) ==
    LET changes == Calls(c, "XChangeProperty")
        starts == SelectSeq(changes, LAMBDA e : e.type = incr_atom)
        start == starts[1]
        notes == SelectSeq(Calls(c, "XSendEvent"),
                           LAMBDA e : /\ e.id = start.id
                                      /\ e.window = start.window
                                      /\ e.property = start.property)
        writes == SelectSeq(changes, LAMBDA e : e.id = incr_tx[1].id)
    IN IF starts # <<>>
       THEN << [id |-> start.id,
                target |-> Head(c.x11.selection_req).target,
                announced |-> start.data[1],
                notified |-> Len(notes),
                payload |-> c.x11.selection_req_data,
                chunks |-> <<>>,
                deletes |-> 0] >>
       ELSE IF incr_tx # <<>>
       THEN << [incr_tx[1] EXCEPT
                  !.chunks = @ \o [i \in 1..Len(writes) |->
                                     [type |-> writes[i].type,
                                      data |-> writes[i].data]],
                  !.deletes = @ + (IF deleted THEN 1 ELSE 0)] >>
       ELSE incr_tx

Init ==
    /\ x11 = vdagent_x11_create
    /\ udscs = <<>>
    /\ xout = <<>>
    /\ xconv = <<>>
    /\ peer_incr = [s \in Selections |-> NoPeerIncr]
    /\ dreq = <<>>
    /\ xprops = {}
    /\ xmask = {}
    /\ n_req = 0
    /\ n_selreq = 0
    /\ answers = [i \in 1..MaxReq |-> 0]
    /\ notifies = [i \in 1..MaxSelReq |-> 0]
    /\ issued = [conv |-> {}, sel |-> {}]
    /\ incr_in = <<>>
    /\ incr_tx = <<>>
    /\ n_own = 0
    /\ oob \in OobOutcomes
    /\ seen = {}
    /\ xread = 0

(***************************************************************************)
(* Actions: one per handler.                                               *)
(***************************************************************************)
\* The daemon sends CLIPBOARD_REQUEST(selection, type).
ClipboardRequest ==
    /\ n_req < MaxReq
    /\ \E selection \in Selections, type \in RequestTypes :
          Commit(vdagent_x11_clipboard_request(Ctx(x11), selection, type,
                                               n_req + 1, TRUE),
                 xconv, dreq, xprops)
    /\ n_req' = n_req + 1
    /\ UNCHANGED <<seen, n_selreq, n_own, oob, peer_incr, incr_in, incr_tx>>

\* The daemon sends CLIPBOARD_GRAB(selection, types).
ClipboardGrab ==
    /\ n_own < MaxOwn
    /\ \E selection \in Selections, types \in GrabTypeLists :
          Commit(vdagent_x11_clipboard_grab(Ctx(x11), selection, types),
                 xconv, dreq, xprops)
    /\ n_own' = n_own + 1
    /\ UNCHANGED <<seen, n_req, n_selreq, oob, peer_incr, incr_in, incr_tx>>

\* The daemon sends CLIPBOARD_RELEASE(selection).
ClipboardRelease ==
    /\ \E selection \in Selections :
          Commit(vdagent_x11_clipboard_release(Ctx(x11), selection),
                 xconv, dreq, xprops)
    /\ UNCHANGED <<seen, n_req, n_selreq, n_own, oob, peer_incr, incr_in, incr_tx>>

\* The daemon answers the oldest CLIPBOARD_REQUEST it was sent: with data of
\* the type asked for, or with type NONE and no data.  seen records that
\* an answer came while an INCR send was under way.
ClipboardData ==
    /\ dreq # <<>>
    /\ \E reply \in DataReplies(Head(dreq).type) :
          LET c == vdagent_x11_clipboard_data(Ctx(x11), Head(dreq).selection,
                                              reply.type, reply.data)
          IN /\ Commit(c, xconv, Tail(dreq), xprops)
             /\ incr_tx' = IncrTx(c, FALSE)
    /\ seen' = seen \cup (IF x11.selection_req_data # <<>>
                          THEN {"CLIPBOARD_DATA while sending"} ELSE {})
    /\ UNCHANGED <<n_req, n_selreq, n_own, oob, peer_incr, incr_in>>

\* An XFixes selection notification: selection has no owner any more, is
\* owned by selection_window, or by the window of a local application.
XFixesSelectionNotify ==
    /\ n_own < MaxOwn
    /\ \E selection \in Selections, owner \in {NoWindow, selection_window, 2} :
          /\ owner = 2 => Len(xconv) < MaxConv
          /\ Commit(vdagent_x11_do_read(
                        handle_event_xfixes(Ctx(x11), selection, owner)),
                    xconv, dreq, xprops)
    /\ n_own' = n_own + 1
    /\ UNCHANGED <<seen, n_req, n_selreq, oob, peer_incr, incr_in, incr_tx>>

\* A SelectionNotify event answers one of the outstanding conversions.  An
\* owner whose INCR property the handler has deleted starts its transfer.
SelectionNotify ==
    \E i \in 1..Len(xconv) :
      \E event \in SelectionNotifyEvents(xconv[i]) :
        LET c == vdagent_x11_do_read(
                     handle_event_selection_notify(Ctx(x11), event))
            sel == vdagent_x11_get_clipboard_selection(event.selection)
            begun == /\ event.fetch_ok
                     /\ event.prop_type = incr_atom
                     /\ ~x11.expect_property_notify
                     /\ c.x11.expect_property_notify
        IN /\ Commit(c, RemoveAt(xconv, i), dreq, xprops)
           /\ peer_incr' = IF begun
                           THEN [peer_incr EXCEPT ![sel] =
                                   [sent |-> 0, target |-> event.target]]
                           ELSE peer_incr
           /\ incr_in' = IF c.x11.expect_property_notify THEN incr_in ELSE <<>>
           /\ seen' = seen \cup
                 (IF /\ event.target = targets_atom
                     /\ sel # -1
                     /\ x11.expected_targets_notifies[sel] > 1
                  THEN {"stale TARGETS reply"} ELSE {})
                 \cup
                 (IF /\ event.target # targets_atom
                     /\ event.property # None
                     /\ event.fetch_ok
                     /\ event.prop_type = incr_atom
                     /\ x11.conversion_req # <<>>
                     /\ x11.expect_property_notify
                  THEN {"INCR reply while receiving"} ELSE {})
           /\ UNCHANGED <<n_req, n_selreq, n_own, oob, incr_tx>>

\* The owner of an INCR transfer writes the next property: up to MaxChunk
\* more bytes, or none to end the transfer; the handler sees the
\* PropertyNotify(NewValue).  The owner goes on when the property is read
\* and deleted, and waits for ever when it is not.
PropertyNewValue ==
    \E selection \in Selections :
      /\ peer_incr[selection].sent >= 0
      /\ \E n \in 0..MaxChunk, type \in {peer_incr[selection].target, "STRING"} :
          /\ peer_incr[selection].sent + n <= MaxIncr
          /\ LET clip == vdagent_x11_get_clipboard_atom(selection)
                 data == [i \in 1..n |-> peer_incr[selection].sent + i]
                 event == Event(None, None, None, NoWindow, selection_window,
                                clip, TRUE, type, 8, data)
                 c == vdagent_x11_do_read(
                          handle_event_property_notify(Ctx(x11), event,
                                                       "NewValue"))
                 read == Calls(c, "XGetWindowProperty") # <<>>
             IN /\ Commit(c, xconv, dreq, xprops)
                /\ peer_incr' = [peer_incr EXCEPT ![selection] =
                                   IF read /\ n > 0
                                   THEN [@ EXCEPT !.sent = @ + n]
                                   ELSE NoPeerIncr]
                /\ incr_in' = IF ~c.x11.expect_property_notify THEN <<>>
                              ELSE IF read THEN incr_in \o data
                              ELSE incr_in
      /\ UNCHANGED <<seen, n_req, n_selreq, n_own, oob, incr_tx>>

\* A requestor asks the owner of the selection, selection_window, for it.
SelectionRequest ==
    /\ n_selreq < MaxSelReq
    /\ \E selection \in Selections, shape \in RequestShapes :
          Commit(vdagent_x11_do_read(
                     handle_event_selection_request(Ctx(x11),
                         [selection |-> selection, target |-> shape.target,
                          requestor |-> shape.requestor,
                          property |-> shape.property, id |-> n_selreq + 1],
                         TRUE)),
                 xconv, dreq, xprops)
    /\ n_selreq' = n_selreq + 1
    /\ UNCHANGED <<seen, n_req, n_own, oob, peer_incr, incr_in, incr_tx>>

\* A requestor deletes a property the bridge wrote on its window; the
\* handler sees the PropertyNotify(PropertyDelete).
PropertyDelete ==
    /\ \E p \in xprops :
          LET c == vdagent_x11_do_read(
                       handle_event_property_notify(Ctx(x11),
                           Event(None, None, None, NoWindow, p[1], p[2], TRUE,
                                 None, 0, <<>>),
                           "Delete"))
              sending == /\ x11.selection_req_data # <<>>
                         /\ p = <<Head(x11.selection_req).requestor,
                                  x11.selection_req_atom>>
          IN /\ Commit(c, xconv, dreq, xprops \ {p})
             /\ incr_tx' = IncrTx(c, sending)
    /\ UNCHANGED <<seen, n_req, n_selreq, n_own, oob, peer_incr, incr_in>>

Next ==
    \/ ClipboardRequest
    \/ ClipboardGrab
    \/ ClipboardRelease
    \/ ClipboardData
    \/ XFixesSelectionNotify
    \/ SelectionNotify
    \/ PropertyNewValue
    \/ SelectionRequest
    \/ PropertyDelete

Spec == Init /\ [][Next]_vars

\* The guest -> daemon direction alone: no requestor asks for the selection.
NextIn ==
    \/ ClipboardRequest
    \/ ClipboardGrab
    \/ XFixesSelectionNotify
    \/ SelectionNotify
    \/ PropertyNewValue

SpecIn == Init /\ [][NextIn]_vars

\* The daemon -> guest direction alone: the daemon asks for no data, and
\* the requestors send one selection request less than MaxSelReq.
NextOut ==
    \/ ClipboardGrab
    \/ ClipboardRelease
    \/ ClipboardData
    \/ XFixesSelectionNotify
    \/ n_selreq + 1 < MaxSelReq /\ SelectionRequest
    \/ PropertyDelete

SpecOut == Init /\ [][NextOut]_vars

\* The same direction with all MaxSelReq selection requests, and one input
\* (request or ownership change) less than the two bounds have apart.
OwnInputs == n_selreq + n_own

NextOwn ==
    \/ OwnInputs + 1 < MaxSelReq + MaxOwn /\ ClipboardGrab
    \/ ClipboardRelease
    \/ ClipboardData
    \/ OwnInputs + 1 < MaxSelReq + MaxOwn /\ XFixesSelectionNotify
    \/ OwnInputs + 1 < MaxSelReq + MaxOwn /\ SelectionRequest
    \/ PropertyDelete

SpecOwn == Init /\ [][NextOwn]_vars

(***************************************************************************)
(* Properties.                                                             *)
(***************************************************************************)
ConversionIds == {x11.conversion_req[k].id : k \in 1..Len(x11.conversion_req)}

SelectionIds == {x11.selection_req[k].id : k \in 1..Len(x11.selection_req)}

\* The X11 peers owe the bridge an event that the handlers settle the
\* request at the head of the conversion queue with: the SelectionNotify of
\* a conversion to a data target (the handler takes it for the head's,
\* whichever request it was issued for), or the next property of the INCR
\* transfer the head is receiving.
HeadConversionPending ==
    LET req == Head(x11.conversion_req)
    IN \/ \E k \in 1..Len(xconv) : xconv[k].target # targets_atom
       \/ /\ x11.expect_property_notify
          /\ peer_incr[req.selection].sent >= 0

\* C1: every CLIPBOARD_REQUEST received from the daemon is eventually
\* followed by a CLIPBOARD_DATA posted for it when the X11 peers answer
\* every conversion: as long as requests are queued, the peers owe an
\* answer to the one at the head, whose handling answers it and starts the
\* next.
C1_RequestEventuallyAnswered ==
    x11.conversion_req # <<>> => HeadConversionPending

\* Every CLIPBOARD_DATA the step posts answers a request received.
DataAnswersRequest ==
    \A k \in 1..Len(udscs') :
       udscs'[k].type = "CLIPBOARD_DATA" => udscs'[k].req \in 1..n_req'

\* Every request the step unlinks gets exactly one CLIPBOARD_DATA, for its
\* selection, in that step.
UnlinkedWithOneData ==
    \A k \in 1..Len(x11.conversion_req) :
       LET r == x11.conversion_req[k]
       IN r.id \notin ConversionIds' =>
            Len(SelectSeq(udscs', LAMBDA m : /\ m.type = "CLIPBOARD_DATA"
                                             /\ m.req = r.id
                                             /\ m.arg1 = r.selection)) = 1

\* C2: no CLIPBOARD_REQUEST produces more than one CLIPBOARD_DATA: every
\* CLIPBOARD_DATA posted answers a request received, each request has at
\* most one and none while it is queued, and a request leaves the queue in
\* the very step that posts exactly one CLIPBOARD_DATA for its selection.
C2_AtMostOneData ==
    [][/\ \A i \in 1..MaxReq : /\ answers'[i] <= 1
                              /\ (i > n_req' => answers'[i] = 0)
                              /\ (i \in ConversionIds' => answers'[i] = 0)
       /\ DataAnswersRequest
       /\ UnlinkedWithOneData]_vars

\* The active request and the one queued behind it have both been answered
\* by the last handler, an ownership change.
C2_Witness ==
    /\ n_req = MaxReq
    /\ \A i \in 1..MaxReq : answers[i] = 1
    /\ x11.conversion_req = <<>>
    /\ Len(Messages([udscs |-> udscs], "CLIPBOARD_DATA")) = MaxReq

\* The peers owe the bridge an event that the handlers settle the request
\* at the head of the selection queue with: the daemon a CLIPBOARD_DATA
\* (vdagent_x11_clipboard_data takes it for the head's unless an INCR send
\* is under way), or the requestor the deletion of the property the INCR
\* send of the head wrote last.
HeadSelectionPending ==
    LET req == Head(x11.selection_req)
    IN \/ dreq # <<>> /\ x11.selection_req_data = <<>>
       \/ /\ x11.selection_req_data # <<>>
          /\ <<req.requestor, x11.selection_req_atom>> \in xprops

\* C3: every SelectionRequest for CLIPBOARD or PRIMARY is eventually
\* followed by a SelectionNotify to its requestor when the daemon answers
\* every CLIPBOARD_REQUEST and requestors delete every INCR property: as
\* long as requests are queued, a peer owes an event to the one at the head,
\* whose handling notifies it and starts the next.
C3_SelectionRequestEventuallyNotified ==
    x11.selection_req # <<>> => HeadSelectionPending

\* C4: the bridge sends at most one SelectionNotify for every
\* SelectionRequest, whether answered in one shot, served through INCR, or
\* queued or active when the ownership of its selection changes.
C4_AtMostOneNotify ==
    \A i \in 1..MaxSelReq : notifies[i] <= 1

\* Both directions at once: MaxReq requests in all, and one input (request
\* or ownership change) less than the two directions have apart.
MixInputs == n_req + n_selreq + n_own

NextMix ==
    \/ /\ n_req + n_selreq < MaxReq
       /\ MixInputs + 1 < MaxReq + MaxOwn
       /\ ClipboardRequest
    \/ /\ n_req + n_selreq < MaxReq
       /\ MixInputs + 1 < MaxReq + MaxOwn
       /\ SelectionRequest
    \/ MixInputs + 1 < MaxReq + MaxOwn /\ ClipboardGrab
    \/ ClipboardRelease
    \/ ClipboardData
    \/ MixInputs + 1 < MaxReq + MaxOwn /\ XFixesSelectionNotify
    \/ SelectionNotify
    \/ PropertyNewValue
    \/ PropertyDelete

SpecMix == Init /\ [][NextMix]_vars

\* The queued requests of selection s that something has been issued for.
ActiveConversions(s) ==
    {k \in 1..Len(x11.conversion_req) :
        /\ x11.conversion_req[k].selection = s
        /\ x11.conversion_req[k].id \in issued.conv}

ActiveSelections(s) ==
    {k \in 1..Len(x11.selection_req) :
        /\ x11.selection_req[k].selection = s
        /\ x11.selection_req[k].id \in issued.sel}

\* C5: for each selection at most one queued daemon request has had its
\* XConvertSelection issued and at most one queued SelectionRequest has had
\* its CLIPBOARD_REQUEST sent or its INCR transfer started; for the
\* requests queued behind the head nothing has been issued at all.
C5_OneActivePerSelection ==
    /\ \A s \in Selections : /\ Cardinality(ActiveConversions(s)) <= 1
                             /\ Cardinality(ActiveSelections(s)) <= 1
    /\ \A k \in 2..Len(x11.conversion_req) :
          x11.conversion_req[k].id \notin issued.conv
    /\ \A k \in 2..Len(x11.selection_req) :
          x11.selection_req[k].id \notin issued.sel

\* Two daemon requests for one selection are queued: the conversion of the
\* first is outstanding, the second waits.
C5_Witness ==
    /\ Len(x11.conversion_req) = 2
    /\ x11.conversion_req[1].selection = x11.conversion_req[2].selection
    /\ x11.conversion_req[1].id \in issued.conv
    /\ \E k \in 1..Len(xconv) : xconv[k].target = x11.conversion_req[1].target

\* The step takes the ownership of selection s away from owner.
OwnerLeaves(s, owner) ==
    /\ x11.clipboard_owner[s] = owner
    /\ x11'.clipboard_owner[s] # owner

\* What the step's flush of the conversion requests of s must leave behind.
InboundFlushed(s) ==
    LET q == x11.conversion_req
    IN /\ \A k \in 1..Len(q) :
             q[k].selection = s =>
                Len(SelectSeq(udscs', LAMBDA m :
                                 /\ m.type = "CLIPBOARD_DATA"
                                 /\ m.req = q[k].id)) = 1
       /\ \A k \in 1..Len(udscs') :
             udscs'[k].type = "CLIPBOARD_DATA" =>
                /\ udscs'[k].arg1 = s
                /\ udscs'[k].arg2 = VD_AGENT_CLIPBOARD_NONE
                /\ udscs'[k].data = <<>>
       /\ x11'.conversion_req = SelectSeq(q, LAMBDA r : r.selection # s)
       /\ (q # <<>> /\ Head(q).selection = s) =>
             /\ x11'.clipboard_data = <<>>
             /\ ~x11'.expect_property_notify
       /\ \A k \in 1..Len(xout') :
             xout'[k].op = "XConvertSelection" => xout'[k].id = 0

\* C6: when the owner of a selection stops being the guest, the same step
\* posts CLIPBOARD_DATA(selection, NONE, empty) once for every conversion
\* request queued for it and unlinks them all, clears the INCR-receive
\* state when the head was among them, starts no other request meanwhile,
\* and leaves the requests of the other selection queued in their order.
C6_GuestFlush ==
    [][\A s \in Selections : OwnerLeaves(s, owner_guest) => InboundFlushed(s)]_vars

\* A flush has just answered the receiving head, chunks of its INCR
\* transfer already read, and the request queued behind it.
C6_Witness ==
    /\ Len(SelectSeq(udscs, LAMBDA m : /\ m.type = "CLIPBOARD_DATA"
                                       /\ m.arg2 = VD_AGENT_CLIPBOARD_NONE)) = 2
    /\ incr_in # <<>>
    /\ x11.conversion_req = <<>>
    /\ \E s \in Selections : x11.clipboard_owner[s] = owner_client

\* What the step's flush of the selection requests of s must leave behind.
OutboundFlushed(s) ==
    LET q == x11.selection_req
        clip == vdagent_x11_get_clipboard_atom(s)
    IN /\ \A k \in 1..Len(q) :
             q[k].selection = s =>
                Len(SelectSeq(xout', LAMBDA e :
                                 /\ e.op = "XSendEvent"
                                 /\ e.id = q[k].id
                                 /\ e.window = q[k].requestor
                                 /\ e.property = None)) = 1
       /\ \A k \in 1..Len(xout') :
             xout'[k].op = "XSendEvent" =>
                /\ xout'[k].selection = clip
                /\ xout'[k].property = None
       /\ x11'.selection_req = SelectSeq(q, LAMBDA r : r.selection # s)
       /\ (q # <<>> /\ Head(q).selection = s) =>
             /\ x11'.selection_req_data = <<>>
             /\ x11'.selection_req_data_pos = 0
             /\ x11'.selection_req_data_size = 0
             /\ x11'.selection_req_atom = None
       /\ \A k \in 1..Len(udscs') : udscs'[k].type # "CLIPBOARD_REQUEST"

\* C7: when the owner of a selection stops being the client, the same step
\* sends SelectionNotify with property None once for every selection
\* request queued for it and unlinks them all, resets the INCR-send buffer,
\* cursor, size and atom when the head was among them, starts no other
\* request meanwhile, and leaves the requests of the other selection queued
\* in their order.
C7_ClientFlush ==
    [][\A s \in Selections : OwnerLeaves(s, owner_client) => OutboundFlushed(s)]_vars

\* A flush has just refused the head, in the middle of its INCR send, and
\* the request queued behind it.
C7_Witness ==
    /\ Len(SelectSeq(xout, LAMBDA e : /\ e.op = "XSendEvent"
                                      /\ e.property = None)) = 2
    /\ notifies[1] = 2
    /\ x11.selection_req = <<>>
    /\ \A s \in Selections : x11.clipboard_owner[s] # owner_client

\* The data of the properties in chunks, concatenated.
RECURSIVE Concat(_)
Concat(chunks) ==
    IF chunks = <<>> THEN <<>>
    ELSE Head(chunks).data \o Concat(Tail(chunks))

\* C8: an INCR send announces the size of the payload in one INCR property
\* named by one SelectionNotify, then writes one property of the target
\* type and at most max_prop_size bytes for each deletion of the property;
\* the properties written hold the payload in order, and a zero-length
\* property comes once, last, after all of the payload.
C8_OutboundIncr ==
    incr_tx # <<>> =>
       LET t == incr_tx[1]
           sent == Concat(t.chunks)
       IN /\ t.announced = Len(t.payload)
          /\ t.announced > max_prop_size
          /\ t.notified = 1
          /\ Len(t.chunks) = t.deletes
          /\ \A k \in 1..Len(t.chunks) :
                /\ t.chunks[k].type = t.target
                /\ Len(t.chunks[k].data) <= max_prop_size
                /\ t.chunks[k].data = <<>> =>
                      k = Len(t.chunks) /\ sent = t.payload
          /\ Len(sent) <= Len(t.payload)
          /\ sent = SubSeq(t.payload, 1, Len(sent))
          /\ (x11.selection_req_data # <<>>) =>
                /\ x11.selection_req_data = t.payload
                /\ x11.selection_req_data_pos = Len(sent)
                /\ Head(x11.selection_req).id = t.id
                /\ \A k \in 1..Len(t.chunks) : t.chunks[k].data # <<>>

\* An INCR send has run to its end: the payload went out in more than one
\* property, then the zero-length one.
C8_Witness ==
    /\ incr_tx # <<>>
    /\ Len(incr_tx[1].chunks) > 2
    /\ incr_tx[1].chunks[Len(incr_tx[1].chunks)].data = <<>>
    /\ Concat(incr_tx[1].chunks) = incr_tx[1].payload
    /\ x11.selection_req_data = <<>>

\* The head of the conversion queue is receiving an INCR transfer.
Receiving ==
    /\ x11.conversion_req # <<>>
    /\ x11.expect_property_notify
    /\ peer_incr[Head(x11.conversion_req).selection].sent >= 0

\* The CLIPBOARD_DATA messages the step posts.
DataPosted == SelectSeq(udscs', LAMBDA m : m.type = "CLIPBOARD_DATA")

\* The step reads a property of the head's INCR transfer: a chunk with
\* data goes to the buffer and nothing else happens; the zero-length one
\* posts the chunks read so far, clears the INCR-receive state, unlinks the
\* head and converts the next request.
ChunkHandled ==
    LET req == Head(x11.conversion_req)
        peer == peer_incr[req.selection]
        rest == Tail(x11.conversion_req)
    IN IF peer_incr'[req.selection].sent > peer.sent
       THEN /\ DataPosted = <<>>
            /\ x11'.conversion_req = x11.conversion_req
            /\ x11'.expect_property_notify
            /\ x11'.clipboard_data = incr_in'
       ELSE /\ Len(DataPosted) = 1
            /\ DataPosted[1].req = req.id
            /\ DataPosted[1].arg1 = req.selection
            /\ DataPosted[1].data = incr_in
            /\ x11'.clipboard_data = <<>>
            /\ ~x11'.expect_property_notify
            /\ x11'.conversion_req = rest
            /\ rest # <<>> =>
                  \E k \in 1..Len(xout') :
                     /\ xout'[k].op = "XConvertSelection"
                     /\ xout'[k].id = Head(rest).id

\* C9: while the head of the conversion queue receives an INCR transfer,
\* nothing is posted for it until the zero-length chunk is read (the
\* ownership of a selection changing apart); reading that chunk posts
\* exactly one CLIPBOARD_DATA, whose payload is the chunks read in the
\* transfer in their order, leaves the buffer empty and
\* expect_property_notify unset, unlinks the request and starts the next.
C9_InboundIncr ==
    [][(Receiving /\ n_own' = n_own) =>
          IF peer_incr' # peer_incr
          THEN (\E k \in 1..Len(xout') : xout'[k].op = "XGetWindowProperty")
                  => ChunkHandled
          ELSE \A k \in 1..Len(DataPosted) :
                  DataPosted[k].req # Head(x11.conversion_req).id]_vars

\* C10: a CLIPBOARD_DATA message posted with a payload answers a queued
\* CLIPBOARD_REQUEST(selection, type) and carries that selection and that
\* type, whichever of the type's atoms the catalog recorded as the target;
\* a message of type NONE has no payload.
C10_DataCarriesRequest ==
    [][\A k \in 1..Len(DataPosted) :
          LET m == DataPosted[k]
          IN /\ m.arg2 = VD_AGENT_CLIPBOARD_NONE => m.data = <<>>
             /\ m.data # <<>> =>
                   \E j \in 1..Len(x11.conversion_req) :
                      /\ x11.conversion_req[j].id = m.req
                      /\ m.arg1 = x11.conversion_req[j].selection
                      /\ m.arg2 = x11.conversion_req[j].type]_vars

\* The atoms the lookups are tried with: every atom of the format table,
\* and atoms that are in no format.
LookupAtoms ==
    UNION {{clipboard_format_templates[i].atoms[j] :
              j \in 1..Len(clipboard_format_templates[i].atoms)} :
           i \in 1..clipboard_format_count}
    \cup {"STRING", targets_atom, incr_atom, multiple_atom, XA_ATOM}

\* The type whose list of equivalent atoms holds atom, NONE for an atom of
\* no list.
TypeOfAtom(atom) ==
    LET hits == {i \in 1..clipboard_format_count :
                   \E j \in 1..Len(clipboard_format_templates[i].atoms) :
                      clipboard_format_templates[i].atoms[j] = atom}
    IN IF hits = {} THEN VD_AGENT_CLIPBOARD_NONE
       ELSE clipboard_format_templates[CHOOSE i \in hits : TRUE].type

\* C11: vdagent_x11_target_to_type returns type T for every atom of T's
\* list of equivalent atoms and NONE for every other atom, and reads only
\* entries inside the format table.
C11_ClassifyTarget ==
    \A atom \in LookupAtoms :
       /\ vdagent_x11_target_to_type(atom) = TypeOfAtom(atom)
       /\ target_to_type_reads(atom) \subseteq 1..clipboard_format_count

\* advertised_types[S]: the types of the catalog of selection.
AdvertisedTypes(selection) ==
    {x11.clipboard_agent_types[selection][j] :
       j \in 1..Len(x11.clipboard_agent_types[selection])}

\* C12: a CLIPBOARD_REQUEST is sent to the daemon only for the head of the
\* selection queue, while the daemon's side owns the selection, and only
\* for a type the catalog of the selection advertises; the head then stays
\* queued.  (A request for any other type is refused: nothing is sent to
\* the daemon for it.)
C12_RequestOnlyAdvertised ==
    \A k \in 1..Len(udscs) :
       udscs[k].type = "CLIPBOARD_REQUEST" =>
          /\ x11.clipboard_owner[udscs[k].arg1] = owner_client
          /\ udscs[k].arg2 \in AdvertisedTypes(udscs[k].arg1)
          /\ x11.selection_req # <<>>
          /\ Head(x11.selection_req).id = udscs[k].req
          /\ Head(x11.selection_req).selection = udscs[k].arg1

\* C13: of the TARGETS replies for a selection, one handled while more are
\* expected (expected_targets_notifies above 1) only decrements the
\* counter: nothing else of the state changes, nothing is read, deleted or
\* sent.  CLIPBOARD_GRAB is sent and the owner set to guest only by the
\* reply that takes the counter to 0.
C13_StaleTargetsIgnored ==
    [][\A s \in Selections :
          LET before == x11.expected_targets_notifies[s]
              after == x11'.expected_targets_notifies[s]
              grabs == SelectSeq(udscs', LAMBDA m : /\ m.type = "CLIPBOARD_GRAB"
                                                    /\ m.arg1 = s)
          IN /\ (after < before /\ before > 1) =>
                   /\ x11' = [x11 EXCEPT !.expected_targets_notifies[s] = @ - 1]
                   /\ udscs' = <<>>
                   /\ xout' = <<>>
             /\ (\/ grabs # <<>>
                 \/ /\ x11'.clipboard_owner[s] = owner_guest
                    /\ x11.clipboard_owner[s] # owner_guest) =>
                   before = 1 /\ after = 0]_vars

\* A TARGETS reply was ignored as stale, and the last one expected has
\* made the guest the owner.
C13_Witness ==
    /\ "stale TARGETS reply" \in seen
    /\ \E s \in Selections :
          /\ x11.expected_targets_notifies[s] = 0
          /\ x11.clipboard_owner[s] = owner_guest
          /\ x11.clipboard_agent_types[s] # <<>>

\* The daemon requests whose conversion the step's SelectionNotify answers.
RepliedIds ==
    {xconv[k].id : k \in 1..Len(xconv)}
    \ ({xconv'[k].id : k \in 1..Len(xconv')} \cup {0})

\* C14: the SelectionNotify of a conversion whose request has been answered
\* already (an ownership change cancelled it with CLIPBOARD_DATA of type
\* NONE) is ignored: no message is posted and the struct, the queue of
\* conversion requests with it, stays as it was.
C14_LateReplyIgnored ==
    [][\A id \in RepliedIds :
          answers[id] > 0 => udscs' = <<>> /\ x11' = x11]_vars

\* The properties with clipboard payload the step writes on requestors:
\* data, an INCR header or an INCR chunk (the ATOM list of a TARGETS reply
\* is not payload).
PayloadWrites ==
    SelectSeq(xout', LAMBDA call : /\ call.op = "XChangeProperty"
                                   /\ call.type # XA_ATOM)

\* C15: clipboard payload is written for a queued SelectionRequest of a
\* selection only while the client side owns that selection: the handler
\* that writes finds owner_client and leaves owner_client.
C15_PayloadOnlyWhileClient ==
    [][\A k \in 1..Len(PayloadWrites) :
          \E j \in 1..Len(x11.selection_req) :
             LET req == x11.selection_req[j]
             IN /\ req.id = PayloadWrites[k].id
                /\ req.requestor = PayloadWrites[k].window
                /\ x11.clipboard_owner[req.selection] = owner_client
                /\ x11'.clipboard_owner[req.selection] = owner_client]_vars

\* The last handler wrote payload bytes on a requestor, in a run where
\* ownership changed more than once.
C15_Witness ==
    /\ n_own > 1
    /\ \E k \in 1..Len(xout) :
          /\ xout[k].op = "XChangeProperty"
          /\ xout[k].type \notin {XA_ATOM, incr_atom}
          /\ xout[k].data # <<>>

\* C16: the conversion requests are queued in the order they came (their
\* numbers grow along the queue), and a step that posts CLIPBOARD_DATA for
\* a queued request has posted it, earlier in the same step, for every
\* request of the same selection queued before it.
C16_InboundOrder ==
    [][LET q == x11.conversion_req
           posted(id) == {k \in 1..Len(DataPosted) : DataPosted[k].req = id}
       IN /\ \A a, b \in 1..Len(x11'.conversion_req) :
                a < b => x11'.conversion_req[a].id < x11'.conversion_req[b].id
          /\ \A a, b \in 1..Len(q) :
                (a < b /\ q[a].selection = q[b].selection) =>
                   \A kb \in posted(q[b].id) :
                      \E ka \in posted(q[a].id) : ka < kb]_vars

\* The last handler answered request 1 with data and converted request 2
\* of the same selection, which had been queued behind it.
C16_Witness ==
    /\ Len(x11.conversion_req) = 1
    /\ x11.conversion_req[1].id = 2
    /\ \E k \in 1..Len(udscs) :
          /\ udscs[k].type = "CLIPBOARD_DATA"
          /\ udscs[k].req = 1
          /\ udscs[k].arg1 = x11.conversion_req[1].selection
          /\ udscs[k].data # <<>>
    /\ \E k \in 1..Len(xout) :
          xout[k].op = "XConvertSelection" /\ xout[k].id = 2

\* The SelectionNotify events the step sends to requestors.
NotifiesSent == SelectSeq(xout', LAMBDA call : call.op = "XSendEvent")

\* C17: the selection requests are queued in the order they came, and when
\* a step sends the SelectionNotify of a request, every request of the same
\* selection that came before it and was still queued has had its own
\* (in an earlier step, or earlier in this one) and is queued no more: no
\* reply overtakes an earlier request, one served by INCR included.
C17_OutboundOrder ==
    [][LET q == x11.selection_req
           q1 == x11'.selection_req
       IN /\ \A a, b \in 1..Len(q1) : a < b => q1[a].id < q1[b].id
          /\ \A kb \in 1..Len(NotifiesSent) :
                \A a \in 1..Len(q) :
                   (/\ q[a].id < NotifiesSent[kb].id
                    /\ vdagent_x11_get_clipboard_atom(q[a].selection)
                          = NotifiesSent[kb].selection) =>
                      /\ \/ notifies[q[a].id] > 0
                         \/ \E ka \in 1..(kb - 1) :
                               NotifiesSent[ka].id = q[a].id
                      /\ \A j \in 1..Len(q1) : q1[j].id # q[a].id]_vars

\* The last handler wrote the zero-length property that ends the INCR send
\* of request 1 and then replied to request 2 of the same selection, which
\* had waited behind it.
C17_Witness ==
    /\ n_own = 1
    /\ incr_tx # <<>>
    /\ incr_tx[1].id = 1
    /\ \E k, n \in 1..Len(xout) :
          /\ k < n
          /\ xout[k].op = "XChangeProperty"
          /\ xout[k].id = 1
          /\ xout[k].data = <<>>
          /\ xout[n].op = "XSendEvent"
          /\ xout[n].id = 2
          /\ xout[n].property # None

\* C18: a CLIPBOARD_REQUEST is queued only for a selection the guest owns
\* and a type its catalog advertises, and then nothing is posted; any other
\* CLIPBOARD_REQUEST posts one CLIPBOARD_DATA of its selection, of type
\* NONE and without data, issues no Xlib request and leaves the struct, the
\* queue with it, as it was.
C18_RequestRefused ==
    [][n_req' = n_req + 1 =>
          IF x11'.conversion_req = x11.conversion_req
          THEN /\ Len(udscs') = 1
               /\ udscs'[1].type = "CLIPBOARD_DATA"
               /\ udscs'[1].arg1 \in Selections
               /\ udscs'[1].arg2 = VD_AGENT_CLIPBOARD_NONE
               /\ udscs'[1].data = <<>>
               /\ udscs'[1].req = n_req'
               /\ xout' = <<>>
               /\ x11' = x11
          ELSE LET new == x11'.conversion_req[Len(x11'.conversion_req)]
               IN /\ x11'.conversion_req = Append(x11.conversion_req, new)
                  /\ new.id = n_req'
                  /\ x11.clipboard_owner[new.selection] = owner_guest
                  /\ new.type \in AdvertisedTypes(new.selection)
                  /\ udscs' = <<>>]_vars

\* The last request was for a type the catalog does not hold, of a
\* selection the guest owns, while another request was queued: it was
\* never converted and has its CLIPBOARD_DATA of type NONE.
C18_Witness ==
    /\ n_req > 0
    /\ n_req \notin issued.conv
    /\ x11.conversion_req # <<>>
    /\ xout = <<>>
    /\ Len(udscs) = 1
    /\ udscs[1].type = "CLIPBOARD_DATA"
    /\ udscs[1].req = n_req
    /\ udscs[1].arg2 = VD_AGENT_CLIPBOARD_NONE
    /\ x11.clipboard_owner[udscs[1].arg1] = owner_guest

\* C19: the SelectionNotify of a conversion handled while an INCR receive
\* is in progress, one that announces an INCR property included, starts no
\* INCR receive: PropertyChangeMask is not selected again, the property is
\* not deleted (its owner is not told to go on), and the buffer and the
\* chunks received so far are what they were.  expect_property_notify being
\* one flag, and set only from unset, one receive at most is in progress.
C19_IncrNotReentered ==
    [][/\ (x11.expect_property_notify /\ RepliedIds # {}) =>
             /\ x11'.clipboard_data = x11.clipboard_data
             /\ incr_in' = incr_in
             /\ peer_incr' = peer_incr
             /\ \A k \in 1..Len(xout') :
                   xout'[k].op \notin {"XSelectInput", "XGetWindowProperty"}
             /\ ("INCR reply while receiving" \in seen' \ seen) =>
                   \A k \in 1..Len(xout') : xout'[k].op # "XDeleteProperty"
       /\ (\E k \in 1..Len(xout') :
              /\ xout'[k].op = "XSelectInput"
              /\ xout'[k].window = selection_window) =>
             ~x11.expect_property_notify /\ x11'.expect_property_notify]_vars

\* A SelectionNotify announcing an INCR property was handled during an INCR
\* receive, and the receive is still on.
C19_Witness ==
    /\ "INCR reply while receiving" \in seen
    /\ x11.expect_property_notify

\* C20: the property written in answer to a TARGETS request is a 32-bit
\* ATOM list that begins with TARGETS and goes on with the equivalent atoms
\* of the advertised types of the selection, all of them and no others;
\* the client side owns the selection; SelectionNotify naming the property
\* follows, the request leaves the queue and no CLIPBOARD_REQUEST is sent
\* for it.
C20_TargetsReply ==
    [][\A k \in 1..Len(xout') :
          (xout'[k].op = "XChangeProperty" /\ xout'[k].type = XA_ATOM) =>
             LET write == xout'[k]
                 list == write.data
             IN /\ write.format = 32
                /\ list # <<>>
                /\ list[1] = targets_atom
                /\ k < Len(xout')
                /\ LET event == xout'[k + 1]
                       s == vdagent_x11_get_clipboard_selection(event.selection)
                   IN /\ event.op = "XSendEvent"
                      /\ event.id = write.id
                      /\ event.window = write.window
                      /\ event.target = targets_atom
                      /\ event.property = write.property
                      /\ s \in Selections
                      /\ x11.clipboard_owner[s] = owner_client
                      /\ {list[n] : n \in 2..Len(list)}
                            = {atom \in LookupAtoms :
                                 TypeOfAtom(atom) \in AdvertisedTypes(s)}
                      /\ \A n \in 2..Len(list) :
                            TypeOfAtom(list[n]) # VD_AGENT_CLIPBOARD_NONE
                /\ \A j \in 1..Len(x11'.selection_req) :
                      x11'.selection_req[j].id # write.id
                /\ \A j \in 1..Len(udscs') :
                      udscs'[j].type = "CLIPBOARD_REQUEST" =>
                         udscs'[j].req # write.id]_vars

\* The last handler answered a TARGETS request while text and PNG were
\* advertised.
C20_Witness ==
    \E k \in 1..Len(xout) :
       /\ xout[k].op = "XChangeProperty"
       /\ xout[k].type = XA_ATOM
       /\ xout[k].data = <<targets_atom, "UTF8_STRING",
                           "text/plain;charset=UTF-8",
                           "text/plain;charset=utf-8", "image/png">>

\* The types the daemon sends data of.
DataTypes ==
    {clipboard_format_templates[i].type : i \in 1..clipboard_format_count}

\* C21: in every state with a head request and no INCR send, CLIPBOARD_DATA
\* of the head's selection and classified type with at most max_prop_size
\* bytes makes vdagent_x11_clipboard_data write exactly those bytes as one
\* 8-bit property of the target's type on the requestor's property (the
\* target atom when the request names None), send one SelectionNotify
\* naming that property, unlink the request and handle the next (it is
\* replied to, or its CLIPBOARD_REQUEST is sent); no INCR state is set up.
C21_SingleShotData ==
    \A type \in DataTypes, n \in 0..max_prop_size :
       (/\ x11.selection_req # <<>>
        /\ x11.selection_req_data = <<>>
        /\ vdagent_x11_target_to_type(Head(x11.selection_req).target) = type)
       =>
       LET req == Head(x11.selection_req)
           prop == IF req.property = None THEN req.target ELSE req.property
           c == vdagent_x11_clipboard_data(Ctx(x11), req.selection, type,
                                           Bytes(n))
           mine == SelectSeq(c.xout, LAMBDA call : call.id = req.id)
           q1 == c.x11.selection_req
       IN /\ Len(mine) = 2
          /\ mine = SubSeq(c.xout, 1, 2)
          /\ mine[1].op = "XChangeProperty"
          /\ mine[1].window = req.requestor
          /\ mine[1].property = prop
          /\ mine[1].type = req.target
          /\ mine[1].format = 8
          /\ mine[1].data = Bytes(n)
          /\ mine[2].op = "XSendEvent"
          /\ mine[2].window = req.requestor
          /\ mine[2].property = prop
          /\ mine[2].target = req.target
          /\ \A j \in 1..Len(q1) : q1[j].id # req.id
          /\ q1 # <<>> =>
                \E k \in 1..Len(c.udscs) :
                   /\ c.udscs[k].type = "CLIPBOARD_REQUEST"
                   /\ c.udscs[k].req = Head(q1).id
          /\ c.x11.selection_req_data = <<>>
          /\ c.x11.selection_req_data_pos = 0
          /\ c.x11.selection_req_data_size = 0
          /\ c.x11.selection_req_atom = None
          /\ \A k \in 1..Len(c.xout) : c.xout[k].op # "XSelectInput"

\* The last handler wrote max_prop_size bytes of data in one property named
\* after the target of an old client's request and sent the SelectionNotify
\* for it.
C21_Witness ==
    /\ x11.selection_req_data = <<>>
    /\ Len(xout) >= 2
    /\ xout[1].op = "XChangeProperty"
    /\ xout[1].type = xout[1].property
    /\ xout[1].format = 8
    /\ xout[1].data = Bytes(max_prop_size)
    /\ xout[2].op = "XSendEvent"
    /\ xout[2].id = xout[1].id
    /\ xout[2].property = xout[1].property

\* The CLIPBOARD_RELEASE messages the step posts for selection s.
ReleasesPosted(s) ==
    SelectSeq(udscs', LAMBDA m : m.type = "CLIPBOARD_RELEASE" /\ m.arg1 = s)

\* C22: a step posts one CLIPBOARD_RELEASE for a selection when it takes
\* the owner of the selection from guest to none, and none in any other
\* step; a release is for a selection the bridge keeps.
C22_ReleaseOnGuestToNone ==
    [][/\ \A s \in Selections :
             Len(ReleasesPosted(s)) =
                IF /\ x11.clipboard_owner[s] = owner_guest
                   /\ x11'.clipboard_owner[s] = owner_none
                THEN 1 ELSE 0
       /\ \A k \in 1..Len(udscs') :
             udscs'[k].type = "CLIPBOARD_RELEASE" =>
                udscs'[k].arg1 \in Selections]_vars

\* The guest has lost a selection and the release was posted, in a run
\* with MaxOwn ownership changes.
C22_Witness ==
    \E k \in 1..Len(udscs) :
       /\ udscs[k].type = "CLIPBOARD_RELEASE"
       /\ x11.clipboard_owner[udscs[k].arg1] = owner_none
       /\ n_own = MaxOwn

\* Owners' TARGETS lists the handler is tried with: types out of the
\* table's order, several atoms of one type in another order than
\* declared, atoms of no type, and none at all.
OwnerLists ==
    TargetLists
    \cup { <<"image/png", "text/plain;charset=utf-8", "UTF8_STRING">>,
           <<"image/jpeg", "image/x-MS-bmp", "image/bmp", "TIMESTAMP">>,
           <<targets_atom, multiple_atom>>,
           <<>> }

\* The formats, in table order, with an atom in list.
FormatsOffered(list) ==
    SelectSeq([i \in 1..clipboard_format_count |-> i],
              LAMBDA i : \E j \in 1..Len(clipboard_format_templates[i].atoms),
                            n \in 1..Len(list) :
                            clipboard_format_templates[i].atoms[j] = list[n])

\* The first atom of format i, in its declared order, that list holds.
FirstOffered(i, list) ==
    LET atoms == clipboard_format_templates[i].atoms
        j == CHOOSE j \in 1..Len(atoms) :
                /\ \E n \in 1..Len(list) : atoms[j] = list[n]
                /\ \A k \in 1..(j - 1) : \A n \in 1..Len(list) :
                      atoms[k] # list[n]
    IN atoms[j]

\* C23: in every state where one TARGETS reply is expected for a selection,
\* the reply, whatever list it carries, leaves as the catalog of the
\* selection one pair per type with an atom in the list, in table order,
\* with the first atom of the type's declared order the list holds; when
\* the catalog is not empty one CLIPBOARD_GRAB with those types is posted
\* and the guest owns the selection; when it is empty nothing is posted
\* and the owner stays.
C23_TargetsCatalog ==
    \A s \in Selections, list \in OwnerLists :
       x11.expected_targets_notifies[s] = 1 =>
          LET clip == vdagent_x11_get_clipboard_atom(s)
              event == Event(clip, targets_atom, targets_atom,
                             selection_window, selection_window, None, TRUE,
                             XA_ATOM, 32, list)
              c == vdagent_x11_handle_targets_notify(Ctx(x11), event)
              fmts == FormatsOffered(list)
              types == [k \in 1..Len(fmts) |->
                          clipboard_format_templates[fmts[k]].type]
              grabs == SelectSeq(c.udscs, LAMBDA m : m.type = "CLIPBOARD_GRAB")
          IN /\ c.x11.expected_targets_notifies[s] = 0
             /\ list # <<>> =>
                   /\ c.x11.clipboard_agent_types[s] = types
                   /\ c.x11.clipboard_x11_targets[s] =
                         [k \in 1..Len(fmts) |-> FirstOffered(fmts[k], list)]
             /\ IF list # <<>> /\ fmts # <<>>
                THEN /\ Len(grabs) = 1
                     /\ grabs[1].arg1 = s
                     /\ grabs[1].data = types
                     /\ c.x11.clipboard_owner[s] = owner_guest
                ELSE /\ c.udscs = <<>>
                     /\ c.x11.clipboard_owner[s] = x11.clipboard_owner[s]

\* The last handler honoured a TARGETS reply that offered the second atom
\* of text and an atom of no type: the catalog holds text with that atom,
\* the grab was posted and the guest is the owner.
C23_Witness ==
    \E s \in Selections :
       /\ x11.expected_targets_notifies[s] = 0
       /\ x11.clipboard_owner[s] = owner_guest
       /\ x11.clipboard_agent_types[s] = <<VD_AGENT_CLIPBOARD_UTF8_TEXT>>
       /\ x11.clipboard_x11_targets[s] = <<"text/plain;charset=UTF-8">>
       /\ \E k \in 1..Len(udscs) :
             /\ udscs[k].type = "CLIPBOARD_GRAB"
             /\ udscs[k].arg1 = s
             /\ udscs[k].data = <<VD_AGENT_CLIPBOARD_UTF8_TEXT>>

\* C24: in every state where the client side owns a selection,
\* vdagent_x11_clipboard_release gives the selection up with
\* XSetSelectionOwner(None) and returns with the ownership change done:
\* the owner is none, every queued selection request of the selection has
\* been sent SelectionNotify with property None and is unlinked, the
\* requests of the other selection stay, and no INCR send of the selection
\* is left.
C24_ReleaseDoneOnReturn ==
    \A s \in Selections :
       x11.clipboard_owner[s] = owner_client =>
          LET c == vdagent_x11_clipboard_release(Ctx(x11), s)
              q == x11.selection_req
              mine == SelectSeq(q, LAMBDA r : r.selection = s)
              refusals == SelectSeq(c.xout, LAMBDA call :
                                      /\ call.op = "XSendEvent"
                                      /\ call.property = None)
          IN /\ c.xout # <<>>
             /\ c.xout[1].op = "XSetSelectionOwner"
             /\ c.xout[1].selection = vdagent_x11_get_clipboard_atom(s)
             /\ c.xout[1].window = NoWindow
             /\ c.x11.clipboard_owner[s] = owner_none
             /\ c.x11.selection_req = SelectSeq(q, LAMBDA r : r.selection # s)
             /\ Len(refusals) = Len(mine)
             /\ \A k \in 1..Len(mine) :
                   /\ refusals[k].id = mine[k].id
                   /\ refusals[k].window = mine[k].requestor
             /\ (q # <<>> /\ Head(q).selection = s) =>
                   c.x11.selection_req_data = <<>>

\* The last handler was a release that refused a request waiting for the
\* daemon's data: the selection has no owner, the queue is empty.
C24_Witness ==
    /\ Len(xout) >= 2
    /\ xout[1].op = "XSetSelectionOwner"
    /\ xout[1].window = NoWindow
    /\ xout[2].op = "XSendEvent"
    /\ xout[2].property = None
    /\ x11.clipboard_owner[
          vdagent_x11_get_clipboard_selection(xout[1].selection)] = owner_none
    /\ x11.selection_req = <<>>
    /\ dreq # <<>>

\* C25: no handler returns to the main loop with an Xlib request issued
\* after its last drain of the library's event queue: the handler that
\* led to the state did not, and none of vdagent_x11_clipboard_request,
\* vdagent_x11_clipboard_grab, vdagent_x11_clipboard_data and
\* vdagent_x11_clipboard_release does from the state, whatever it is
\* called with.
C25_DrainedOnReturn ==
    /\ xread = Len(xout)
    /\ \A selection \in Selections :
          /\ \A type \in RequestTypes \cup {VD_AGENT_CLIPBOARD_NONE} :
                LET c == vdagent_x11_clipboard_request(Ctx(x11), selection,
                                                       type, n_req + 1, TRUE)
                IN c.read = Len(c.xout)
          /\ \A types \in GrabTypeLists :
                LET c == vdagent_x11_clipboard_grab(Ctx(x11), selection, types)
                IN c.read = Len(c.xout)
          /\ \A type \in RequestTypes \cup {VD_AGENT_CLIPBOARD_NONE},
                n \in 0..MaxData :
                LET c == vdagent_x11_clipboard_data(Ctx(x11), selection, type,
                                                    [k \in 1..n |-> k])
                IN c.read = Len(c.xout)
          /\ LET c == vdagent_x11_clipboard_release(Ctx(x11), selection)
             IN c.read = Len(c.xout)

\* The last handler was a grab that took the selection and refused a
\* queued selection request, and it drained the event queue after both.
C25_Witness ==
    /\ Len(xout) >= 2
    /\ xout[1].op = "XSetSelectionOwner"
    /\ xout[1].window = selection_window
    /\ xout[2].op = "XSendEvent"
    /\ xread = Len(xout)

\* C26: when malloc returns no request slot, the handler leaves the struct
\* as it was and still answers the peer: vdagent_x11_clipboard_request, for
\* a request it would have queued, posts one CLIPBOARD_DATA of type NONE
\* for the selection; the SelectionRequest branch, for a selection the
\* client side owns, sends the requestor one SelectionNotify with property
\* None.
C26_AllocFailureAnswered ==
    /\ \A selection \in Selections, type \in RequestTypes :
          LET c == vdagent_x11_clipboard_request(Ctx(x11), selection, type,
                                                 n_req + 1, FALSE)
              datas == Messages(c, "CLIPBOARD_DATA")
          IN (/\ x11.clipboard_owner[selection] = owner_guest
              /\ vdagent_x11_type_to_target(x11, selection, type) # None)
             => /\ c.x11 = x11
                /\ Len(datas) = 1
                /\ datas[1].arg1 = selection
                /\ datas[1].arg2 = VD_AGENT_CLIPBOARD_NONE
    /\ \A selection \in Selections, shape \in RequestShapes :
          LET new_req == [selection |-> selection, target |-> shape.target,
                          requestor |-> shape.requestor,
                          property |-> shape.property, id |-> n_selreq + 1]
              c == handle_event_selection_request(Ctx(x11), new_req, FALSE)
              sends == Calls(c, "XSendEvent")
          IN x11.clipboard_owner[selection] = owner_client
             => /\ c.x11 = x11
                /\ Len(sends) = 1
                /\ sends[1].window = shape.requestor
                /\ sends[1].property = None

\* C27: no handler returns with a request at the head of a queue that has
\* not been started: XConvertSelection has been issued for the head of the
\* conversion queue, and for the head of the selection queue the
\* CLIPBOARD_REQUEST has been sent to the daemon or its INCR send is under
\* way, also when the head became the head by an ownership change that
\* unlinked the requests before it.
C27_HeadStarted ==
    /\ x11.conversion_req # <<>> =>
          Head(x11.conversion_req).id \in issued.conv
    /\ x11.selection_req # <<>> =>
          \/ Head(x11.selection_req).id \in issued.sel
          \/ x11.selection_req_data # <<>>

\* C28: the handler that writes the zero-length property ending an INCR
\* send leaves the request served at the head of the selection queue, and
\* writes no property and sends no SelectionNotify for another request:
\* the request stays active until the deletion of that last property.
C28_IncrActiveUntilLastDelete ==
    \A k \in 1..Len(xout) :
       (/\ xout[k].op = "XChangeProperty"
        /\ xout[k].type # incr_atom
        /\ xout[k].data = <<>>)
       => /\ x11.selection_req # <<>>
          /\ Head(x11.selection_req).id = xout[k].id
          /\ \A j \in 1..Len(xout) :
                xout[j].op \in {"XChangeProperty", "XSendEvent"} =>
                   xout[j].id = xout[k].id

\* C29: in every state with a head request and no INCR send, CLIPBOARD_DATA
\* whose selection is not the head's, or whose type (NONE included) is not
\* the type vdagent_x11_target_to_type gives the head's target, makes
\* vdagent_x11_clipboard_data write no property, send the head's requestor
\* exactly one SelectionNotify with property None, unlink the head and
\* handle the requests behind it: each is replied to and unlinked, up to
\* the first whose CLIPBOARD_REQUEST is sent, which becomes the head.
C29_MismatchRefused ==
    \A selection \in Selections,
       type \in DataTypes \cup {VD_AGENT_CLIPBOARD_NONE},
       n \in 0..MaxData :
       (/\ x11.selection_req # <<>>
        /\ x11.selection_req_data = <<>>
        /\ \/ selection # Head(x11.selection_req).selection
           \/ type # vdagent_x11_target_to_type(Head(x11.selection_req).target))
       =>
       LET req == Head(x11.selection_req)
           rest == Tail(x11.selection_req)
           c == vdagent_x11_clipboard_data(Ctx(x11), selection, type, Bytes(n))
           mine == SelectSeq(c.xout, LAMBDA call : call.id = req.id)
           q1 == c.x11.selection_req
           done == Len(rest) - Len(q1)
       IN /\ mine = <<SelectionNotifyEvent(None, req)>>
          /\ c.xout[1] = mine[1]
          /\ done >= 0
          /\ q1 = SubSeq(rest, done + 1, Len(rest))
          /\ \A j \in 1..done :
                Len(SelectSeq(c.xout, LAMBDA call :
                                        /\ call.op = "XSendEvent"
                                        /\ call.id = rest[j].id)) = 1
          /\ q1 # <<>> =>
                /\ Len(Messages(c, "CLIPBOARD_REQUEST")) = 1
                /\ Messages(c, "CLIPBOARD_REQUEST")[1].req = Head(q1).id
          /\ q1 = <<>> => c.udscs = <<>>
          /\ c.x11.selection_req_data = <<>>
          /\ c.x11.clipboard_owner = x11.clipboard_owner

\* The last handler took a CLIPBOARD_DATA that did not fit request 1, the
\* head: it refused request 1 and sent the CLIPBOARD_REQUEST of request 2,
\* queued behind it and now the head.
C29_Witness ==
    /\ n_selreq = 2
    /\ xout # <<>>
    /\ xout[1].op = "XSendEvent"
    /\ xout[1].property = None
    /\ xout[1].id = 1
    /\ x11.clipboard_owner[
          vdagent_x11_get_clipboard_selection(xout[1].selection)] = owner_client
    /\ x11.selection_req # <<>>
    /\ Head(x11.selection_req).id = 2
    /\ \E k \in 1..Len(udscs) : /\ udscs[k].type = "CLIPBOARD_REQUEST"
                               /\ udscs[k].req = 2

\* C30: in every state where an INCR send is under way, CLIPBOARD_DATA makes
\* vdagent_x11_clipboard_data discard the data, send the requestor of the
\* request being served one SelectionNotify with property None and no
\* other, and unlink that request.
C30_DataDuringIncrRefused ==
    \A selection \in Selections,
       type \in DataTypes \cup {VD_AGENT_CLIPBOARD_NONE},
       n \in 0..MaxData :
       (x11.selection_req # <<>> /\ x11.selection_req_data # <<>>)
       =>
       LET req == Head(x11.selection_req)
           c == vdagent_x11_clipboard_data(Ctx(x11), selection, type, Bytes(n))
           sends == Calls(c, "XSendEvent")
       IN /\ Calls(c, "XChangeProperty") = <<>>
          /\ sends = <<SelectionNotifyEvent(None, req)>>
          /\ \A j \in 1..Len(c.x11.selection_req) :
                c.x11.selection_req[j].id # req.id

\* C30 as the code has it: in every state where an INCR send is under way,
\* vdagent_x11_clipboard_data discards the CLIPBOARD_DATA and does nothing
\* else: no SelectionNotify, no property, no message to the daemon, the
\* struct as it was, the request being served still at the head and its
\* INCR send going on.
C30_DataDuringIncrIgnored ==
    \A selection \in Selections,
       type \in DataTypes \cup {VD_AGENT_CLIPBOARD_NONE},
       n \in 0..MaxData :
       (x11.selection_req # <<>> /\ x11.selection_req_data # <<>>)
       =>
       LET c == vdagent_x11_clipboard_data(Ctx(x11), selection, type, Bytes(n))
       IN /\ c.xout = <<>>
          /\ c.udscs = <<>>
          /\ c.x11 = x11

\* The last handler took a CLIPBOARD_DATA while an INCR send was under way:
\* it sent nothing, and the send is still under way.
C30_Witness ==
    /\ "CLIPBOARD_DATA while sending" \in seen
    /\ xout = <<>>
    /\ udscs = <<>>
    /\ x11.selection_req # <<>>
    /\ x11.selection_req_data # <<>>
    /\ incr_tx # <<>>
    /\ incr_tx[1].id = Head(x11.selection_req).id
    /\ incr_tx[1].deletes = 0

\* The SelectionNotify events of data conversions that can arrive in the
\* state, and fail the head req of the conversion queue: the owner's
\* refusal, parameters that are not the head's, a property that cannot be
\* read, of another type than the target (INCR apart), of another width
\* than 8 bits, or empty.
InboundNotifyFailures(req) ==
    {e \in UNION {SelectionNotifyEvents(xconv[i]) : i \in 1..Len(xconv)} :
        /\ e.target # targets_atom
        /\ \/ e.property = None
           \/ vdagent_x11_get_clipboard_selection(e.selection) # req.selection
           \/ e.target # req.target
           \/ ~e.fetch_ok
           \/ e.prop_type \notin {req.target, incr_atom}
           \/ e.prop_type = req.target /\ e.prop_format # 8
           \/ e.prop_type = req.target /\ e.prop_data = <<>>}

\* The PropertyNotify(NewValue) events that fail the head req while its
\* INCR receive is under way: a chunk of another type than the target, or
\* the end of a transfer that brought no data.
InboundChunkFailures(req) ==
    {e \in {Event(None, None, None, NoWindow, selection_window,
                  vdagent_x11_get_clipboard_atom(req.selection), TRUE, type,
                  8, Bytes(n)) :
               type \in {req.target, "STRING"}, n \in 0..MaxChunk} :
        /\ x11.expect_property_notify
        /\ \/ e.prop_type # req.target
           \/ e.prop_data = <<>> /\ x11.clipboard_data = <<>>}

\* What C31 asks of the handler's result c for the failed head of q.
InboundFailed(c, q) ==
    LET datas == Messages(c, "CLIPBOARD_DATA")
    IN /\ Len(datas) = 1
       /\ datas[1].req = Head(q).id
       /\ datas[1].arg1 = Head(q).selection
       /\ datas[1].arg2 = VD_AGENT_CLIPBOARD_NONE
       /\ datas[1].data = <<>>
       /\ c.x11.clipboard_data = <<>>
       /\ c.x11.conversion_req = Tail(q)
       /\ Tail(q) # <<>> =>
             \E k \in 1..Len(c.xout) :
                /\ c.xout[k].op = "XConvertSelection"
                /\ c.xout[k].id = Head(Tail(q)).id
                /\ c.xout[k].target = Head(Tail(q)).target

\* C31: in every state with an active conversion request, each event that
\* fails it makes the handler post exactly one CLIPBOARD_DATA of type NONE
\* with no data for it, leave the INCR buffer empty, unlink the request and
\* no other, and issue the conversion of the request queued next.
C31_InboundFailure ==
    x11.conversion_req # <<>> =>
       LET q == x11.conversion_req
       IN /\ \A e \in InboundNotifyFailures(Head(q)) :
                InboundFailed(handle_event_selection_notify(Ctx(x11), e), q)
          /\ \A e \in InboundChunkFailures(Head(q)) :
                InboundFailed(handle_event_property_notify(Ctx(x11), e,
                                                           "NewValue"), q)

\* C32: in every state and for each selection, the XFixes branch changes
\* nothing and issues nothing when the owner named is selection_window.
\* For any other owner it leaves the owner of the selection none, with no
\* request of the selection in either queue, and the rest of the struct as
\* vdagent_x11_set_clipboard_owner(none) leaves it; when the owner named is
\* a window it then issues one TARGETS conversion, the last request of the
\* handler, and counts one more TARGETS reply expected; when it is None it
\* issues no conversion and the count stays.
C32_XFixesOwner ==
    \A selection \in Selections :
       LET self == handle_event_xfixes(Ctx(x11), selection, selection_window)
           flushed == vdagent_x11_set_clipboard_owner(Ctx(x11), selection,
                                                      owner_none)
           gone == handle_event_xfixes(Ctx(x11), selection, NoWindow)
           taken == handle_event_xfixes(Ctx(x11), selection, 2)
           converts == Calls(taken, "XConvertSelection")
       IN /\ self = Ctx(x11)
          /\ \A c \in {gone, taken} :
                /\ c.x11.clipboard_owner[selection] = owner_none
                /\ c.x11.clipboard_agent_types[selection] = <<>>
                /\ \A k \in 1..Len(c.x11.conversion_req) :
                      c.x11.conversion_req[k].selection # selection
                /\ \A k \in 1..Len(c.x11.selection_req) :
                      c.x11.selection_req[k].selection # selection
                /\ c.udscs = flushed.udscs
          /\ gone = flushed
          /\ Calls(gone, "XConvertSelection") = <<>>
          /\ Len(converts) = 1
          /\ converts[1].selection = vdagent_x11_get_clipboard_atom(selection)
          /\ converts[1].target = targets_atom
          /\ taken.xout = Append(flushed.xout, converts[1])
          /\ taken.x11 =
                [flushed.x11 EXCEPT !.expected_targets_notifies[selection] =
                    x11.expected_targets_notifies[selection] + 1]

\* The last handler was told of a local application owning a selection the
\* client side owned: it refused a queued selection request, then asked
\* the new owner for its targets.
C32_Witness ==
    /\ Len(xout) >= 2
    /\ xout[1].op = "XSendEvent"
    /\ xout[1].property = None
    /\ xout[Len(xout)].op = "XConvertSelection"
    /\ xout[Len(xout)].target = targets_atom
    /\ LET s == vdagent_x11_get_clipboard_selection(xout[Len(xout)].selection)
       IN /\ x11.clipboard_owner[s] = owner_none
          /\ x11.expected_targets_notifies[s] >= 1

\* The selection requests handled for C33: those of RequestShapes, and one
\* for the target MULTIPLE.
HeadShapes ==
    RequestShapes
    \cup {[target |-> multiple_atom, requestor |-> 2, property |-> "P"]}

\* What C33 asks of the handler's result c for the head r it processed:
\* one SelectionNotify with property None to its requestor, no property
\* written for it, no message to the daemon for it, and r unlinked.
HeadRefused(c, r) ==
    /\ SelectSeq(c.xout, LAMBDA call : call.id = r.id)
          = <<SelectionNotifyEvent(None, r)>>
    /\ \A k \in 1..Len(c.udscs) : c.udscs[k].req # r.id
    /\ \A k \in 1..Len(c.x11.selection_req) : c.x11.selection_req[k].id # r.id

\* C33: a selection request that is processed as the head of the queue (on
\* arrival at an empty queue, or when the head before it is unlinked) is
\* refused, with nothing sent to the daemon for it, when the client side
\* does not own its selection, whatever its target (TARGETS and MULTIPLE
\* included), and when its target is MULTIPLE, whoever owns the selection.
C33_HeadRefused ==
    /\ x11.selection_req = <<>> =>
          \A selection \in Selections, shape \in HeadShapes :
             LET r == [selection |-> selection, target |-> shape.target,
                       requestor |-> shape.requestor,
                       property |-> shape.property, id |-> n_selreq + 1]
             IN (\/ x11.clipboard_owner[selection] # owner_client
                 \/ shape.target = multiple_atom)
                => HeadRefused(handle_event_selection_request(Ctx(x11), r,
                                                              TRUE), r)
    /\ (Len(x11.selection_req) >= 2 /\ x11.selection_req_data = <<>>) =>
          LET r == x11.selection_req[2]
          IN x11.clipboard_owner[r.selection] # owner_client
             => HeadRefused(vdagent_x11_handle_selection_request(
                                vdagent_x11_next_selection_request(Ctx(x11))),
                            r)

\* The only selection request of the run asked for TARGETS of a selection
\* the client side did not own, and was refused on arrival.
C33_Witness ==
    /\ n_selreq = 1
    /\ Len(xout) = 1
    /\ xout[1].op = "XSendEvent"
    /\ xout[1].id = 1
    /\ xout[1].target = targets_atom
    /\ xout[1].property = None
    /\ x11.clipboard_owner[
          vdagent_x11_get_clipboard_selection(xout[1].selection)] # owner_client
    /\ x11.selection_req = <<>>
    /\ udscs = <<>>

\* C34: in every state, a daemon message naming the selection SECONDARY
\* leaves the struct as it is: vdagent_x11_clipboard_grab and
\* vdagent_x11_clipboard_release do nothing, vdagent_x11_clipboard_request
\* posts one CLIPBOARD_DATA of type NONE and nothing else, and
\* vdagent_x11_clipboard_data changes neither the owners, the catalogs nor
\* the queues, and sends no reply to a requestor.
C34_SecondaryRejected ==
    LET secondary == VD_AGENT_CLIPBOARD_SELECTION_SECONDARY
    IN /\ \A types \in GrabTypeLists :
             vdagent_x11_clipboard_grab(Ctx(x11), secondary, types) = Ctx(x11)
       /\ vdagent_x11_clipboard_release(Ctx(x11), secondary) = Ctx(x11)
       /\ \A type \in RequestTypes :
             LET c == vdagent_x11_clipboard_request(Ctx(x11), secondary, type,
                                                    n_req + 1, TRUE)
             IN /\ c.x11 = x11
                /\ c.xout = <<>>
                /\ Len(c.udscs) = 1
                /\ c.udscs[1].type = "CLIPBOARD_DATA"
                /\ c.udscs[1].arg1 = secondary
                /\ c.udscs[1].arg2 = VD_AGENT_CLIPBOARD_NONE
                /\ c.udscs[1].data = <<>>
       /\ \A type \in DataTypes \cup {VD_AGENT_CLIPBOARD_NONE},
             n \in 0..MaxData :
             LET c == vdagent_x11_clipboard_data(Ctx(x11), secondary, type,
                                                 Bytes(n))
             IN /\ c.x11 = x11
                /\ c.xout = <<>>

\* C35: while the client owns selection s, no step makes the guest its
\* owner or sends the daemon a CLIPBOARD_GRAB for s, and a step that leaves
\* the client the owner without another CLIPBOARD_GRAB of the daemon's
\* (which calls XSetSelectionOwner) leaves the catalog as it is; so the
\* TARGETS reply to a conversion issued before the grab changes nothing.
C35_ClientUntilOwnerChange ==
    [][\A s \in Selections :
         x11.clipboard_owner[s] = owner_client =>
           /\ x11'.clipboard_owner[s] \in {owner_client, owner_none}
           /\ \A i \in 1..Len(udscs') :
                 ~(udscs'[i].type = "CLIPBOARD_GRAB" /\ udscs'[i].arg1 = s)
           /\ (/\ x11'.clipboard_owner[s] = owner_client
               /\ \A i \in 1..Len(xout') :
                     ~(/\ xout'[i].op = "XSetSelectionOwner"
                       /\ xout'[i].selection =
                              vdagent_x11_get_clipboard_atom(s)))
              => x11'.clipboard_agent_types[s] = x11.clipboard_agent_types[s]
      ]_vars

\* C36: whenever the daemon's answer to the oldest CLIPBOARD_REQUEST not yet
\* answered makes vdagent_x11_clipboard_data act on the head of the
\* selection_req queue (a property written on its requestor, a
\* SelectionNotify sent to it), that CLIPBOARD_REQUEST was the one issued
\* for the head.
C36_AnswerForItsRequest ==
    (dreq # <<>> /\ x11.selection_req # <<>>) =>
       \A reply \in DataReplies(Head(dreq).type) :
          LET c == vdagent_x11_clipboard_data(Ctx(x11), Head(dreq).selection,
                                              reply.type, reply.data)
          IN \A k \in 1..Len(c.xout) :
                (/\ c.xout[k].op \in {"XChangeProperty", "XSendEvent"}
                 /\ c.xout[k].id = Head(x11.selection_req).id)
                => Head(dreq).req = Head(x11.selection_req).id

\* C37: expect_property_notify is set only while a conversion request is
\* queued (its head the request whose INCR receive is under way), and the
\* receive buffer holds no byte while expect_property_notify is not set.
C37_IncrReceiveState ==
    /\ x11.expect_property_notify => x11.conversion_req # <<>>
    /\ ~x11.expect_property_notify => x11.clipboard_data = <<>>

\* C38: while an INCR-send buffer is set, the selection_req queue is not
\* empty and its head is the request the buffer was stored for, the buffer
\* is the payload stored, the cursor is within it, and
\* vdagent_x11_clipboard_data leaves the struct as it is whatever it is
\* called with; so the assert of
\* vdagent_x11_handle_property_delete_notify, which is only called with
\* the buffer set, holds.
C38_IncrSendBuffer ==
    x11.selection_req_data # <<>> =>
       /\ x11.selection_req # <<>>
       /\ incr_tx # <<>>
       /\ Head(x11.selection_req).id = incr_tx[1].id
       /\ x11.selection_req_data = incr_tx[1].payload
       /\ x11.selection_req_data_size = Len(x11.selection_req_data)
       /\ x11.selection_req_data_pos <= x11.selection_req_data_size
       /\ x11.selection_req_atom = RequestProperty(Head(x11.selection_req))
       /\ \A selection \in Selections,
             type \in DataTypes \cup {VD_AGENT_CLIPBOARD_NONE},
             n \in 0..MaxData :
             vdagent_x11_clipboard_data(Ctx(x11), selection, type,
                                        Bytes(n)).x11 = x11

\* An INCR send has sent its whole buffer and waits for the last deletion,
\* with another request queued behind its own.
C38_Witness ==
    /\ x11.selection_req_data # <<>>
    /\ x11.selection_req_data_pos = x11.selection_req_data_size
    /\ Len(x11.selection_req) > 1
    /\ incr_tx # <<>>
    /\ incr_tx[1].id = Head(x11.selection_req).id
    /\ incr_tx[1].deletes > 0

\* C39: for each selection, the catalog is empty while the selection has
\* no owner; and while the guest owns it the catalog is not empty and
\* pairs each type with an atom of the format of that type.
C39_CatalogOfOwner ==
    \A s \in Selections :
       LET types == x11.clipboard_agent_types[s]
           atoms == x11.clipboard_x11_targets[s]
       IN /\ x11.clipboard_owner[s] = owner_none =>
                types = <<>> /\ atoms = <<>>
          /\ x11.clipboard_owner[s] = owner_guest =>
                /\ types # <<>>
                /\ Len(atoms) = Len(types)
                /\ \A i \in 1..Len(types) :
                      \E f \in 1..clipboard_format_count :
                         /\ clipboard_format_templates[f].type = types[i]
                         /\ \E a \in 1..Len(clipboard_format_templates[f].atoms) :
                               clipboard_format_templates[f].atoms[a] = atoms[i]

\* The guest owns one selection with a catalog built from the owner's
\* second atom for text, and the other selection has lost its owner after
\* the client had owned it.
C39_Witness ==
    \E s, t \in Selections :
       /\ x11.clipboard_owner[s] = owner_guest
       /\ x11.clipboard_x11_targets[s] = <<"text/plain;charset=UTF-8">>
       /\ x11.clipboard_owner[t] = owner_none
       /\ \E k \in 1..Len(xout) : /\ xout[k].op = "XSetSelectionOwner"
                                  /\ xout[k].window = NoWindow

\* Handler output c has flushed both queues of selection s: no request of s
\* is left in either, the requests of other selections are left in order,
\* each selection request of s was sent one SelectionNotify with property
\* None, each conversion request of s answered with one CLIPBOARD_DATA of
\* type NONE, and the INCR-send buffer is dropped when the head was of s.
Flushed(c, s) ==
    LET sel_gone == SelectSeq(x11.selection_req, LAMBDA r : r.selection = s)
        conv_gone == SelectSeq(x11.conversion_req, LAMBDA r : r.selection = s)
    IN /\ c.x11.selection_req =
             SelectSeq(x11.selection_req, LAMBDA r : r.selection # s)
       /\ c.x11.conversion_req =
             SelectSeq(x11.conversion_req, LAMBDA r : r.selection # s)
       /\ \A j \in 1..Len(sel_gone) :
             Len(SelectSeq(c.xout,
                           LAMBDA e : /\ e.op = "XSendEvent"
                                      /\ e.id = sel_gone[j].id
                                      /\ e.window = sel_gone[j].requestor
                                      /\ e.property = None)) = 1
       /\ \A j \in 1..Len(conv_gone) :
             Len(SelectSeq(c.udscs,
                           LAMBDA m : /\ m.type = "CLIPBOARD_DATA"
                                      /\ m.req = conv_gone[j].id
                                      /\ m.arg1 = s
                                      /\ m.arg2 = VD_AGENT_CLIPBOARD_NONE
                                      /\ m.data = <<>>)) = 1
       /\ (x11.selection_req # <<>> /\ Head(x11.selection_req).selection = s)
             => /\ c.x11.selection_req_data = <<>>
                /\ c.x11.selection_req_data_pos = 0
                /\ c.x11.selection_req_data_size = 0
       /\ (x11.conversion_req # <<>> /\ Head(x11.conversion_req).selection = s)
             => /\ ~c.x11.expect_property_notify
                /\ c.x11.clipboard_data = <<>>

\* C40: in every state and for each selection s,
\* vdagent_x11_set_clipboard_owner flushes both queues of s whatever the
\* owner is and whatever the new one; so does the daemon's CLIPBOARD_GRAB
\* for s, also while the client owns s already, and so does every TARGETS
\* reply for s that is announced to the daemon and makes the guest the
\* owner.
C40_AssignmentFlushes ==
    \A s \in Selections :
       /\ \A new_owner \in {owner_none, owner_guest, owner_client} :
             LET c == vdagent_x11_set_clipboard_owner(Ctx(x11), s, new_owner)
             IN Flushed(c, s) /\ c.x11.clipboard_owner[s] = new_owner
       /\ \A types \in GrabTypeLists :
             LET c == vdagent_x11_clipboard_grab(Ctx(x11), s, types)
             IN Flushed(c, s) /\ c.x11.clipboard_owner[s] = owner_client
       /\ \A atoms \in TargetLists :
             LET c == vdagent_x11_handle_targets_notify(
                          Ctx(x11),
                          Event(vdagent_x11_get_clipboard_atom(s),
                                targets_atom, targets_atom, selection_window,
                                selection_window, None, TRUE, XA_ATOM, 32,
                                atoms))
             IN Messages(c, "CLIPBOARD_GRAB") # <<>>
                => Flushed(c, s) /\ c.x11.clipboard_owner[s] = owner_guest

\* The daemon's second CLIPBOARD_GRAB for a selection the client owned has
\* refused the head of the queue, whose INCR send was under way, and with
\* it a second request of that selection.
C40_Witness ==
    /\ n_own = 2
    /\ Len(xout) = 3
    /\ xout[1].op = "XSetSelectionOwner"
    /\ xout[1].window = selection_window
    /\ xout[2].op = "XSendEvent"
    /\ xout[2].property = None
    /\ xout[3].op = "XSendEvent"
    /\ xout[3].property = None
    /\ incr_tx # <<>>
    /\ incr_tx[1].id = xout[2].id
    /\ \A k \in 1..Len(incr_tx[1].chunks) : incr_tx[1].chunks[k].data # <<>>
    /\ x11.selection_req = <<>>
    /\ x11.selection_req_data = <<>>

=============================================================================
